---- MODULE Spec2Model ----
(***************************************************************************)
(* Governed memory store (ThreadBorn / BridgeThread / Vault / Labyrinth),  *)
(* the Vault sealing gate and the memory-governance tools.                 *)
(*                                                                         *)
(* Strings the code manipulates character by character (titles, slugs,     *)
(* file names) are sequences of tokens: one token per character, except    *)
(* that a rendered timestamp slug ("2024-01-02T03-04-05-000Z", 24 safe     *)
(* characters) is the single token TsTok(t).  A path is a sequence of      *)
(* segments, each segment a token sequence.  Opaque strings (session ids,  *)
(* trigger names, error names) are TLA+ strings.                           *)
(***************************************************************************)
EXTENDS Integers, Sequences, FiniteSets, TLC

VARIABLES
    files,   \* the host file system: absolute path -> content (sequence of blocks)
    dirs,    \* the directories that exist (absolute paths)
    now,     \* the millisecond clock read by new Date()
    env,     \* process.env.SANI_VAULT_SEALING_ENABLED: "unset" or its string value
    store,   \* the session store: session key -> record
    last,    \* the last tool call: its request, its outcome, the file it wrote
    calls    \* the store writes in flight: slot -> the writeUniqueFile call's locals

vars == <<files, dirs, now, env, store, last, calls>>

\* ---------------------------------------------------------------- bounds
MaxTime == 1
MaxFiles == 2
MaxBlocks == 2
MaxGateFiles == 3
MaxCollisionFiles == 6
MaxChainFiles == 4
MaxSandboxFiles == 3
MaxProvenanceFiles == 2
MaxNameFiles == 4
MaxCalls == 2
MaxCallFiles == 5
MaxMinutes == 1
MaxModeFiles == 2
MaxTtlFiles == 1
MaxLines == 3
MaxTriggerFiles == 2
MaxFragments == 2
MaxDays == 1
MaxAuditFiles == 2
MaxQueryFiles == 2

\* ------------------------------------------------------- program constants
MAX_SLUG_LENGTH == 60
MaxAttempts == 5
TsLen == 24

\* ------------------------------------------------------------ characters
UpperChars == <<"A","B","C","D","E","F","G","H","I","J","K","L","M",
                "N","O","P","Q","R","S","T","U","V","W","X","Y","Z">>
LowerChars == <<"a","b","c","d","e","f","g","h","i","j","k","l","m",
                "n","o","p","q","r","s","t","u","v","w","x","y","z">>
Digits == {"0","1","2","3","4","5","6","7","8","9"}

Range(s) == {s[i] : i \in DOMAIN s}

\* new Date().toISOString().replace(/[:.]/g, "-") at clock value t
TsTok(t) == "T" \o ToString(t)
TsTokLower(t) == "t" \o ToString(t)
Clock == 0..(MaxTime + 1)
TsToks == {TsTok(t) : t \in Clock}
TsToksLower == {TsTokLower(t) : t \in Clock}
IsTs(c) == c \in TsToks \/ c \in TsToksLower

timestampSlug(t) == <<TsTok(t)>>

CharLen(c) == IF IsTs(c) THEN TsLen ELSE 1

Spaces == {" ", "\t", "\n", "\r"}
IsSpace(c) == c \in Spaces

\* [a-z0-9._-] under the i flag
SafeChars ==
    Range(UpperChars) \cup Range(LowerChars) \cup Digits \cup {".", "_", "-"}
        \cup TsToks \cup TsToksLower
IsSafeChar(c) == c \in SafeChars

LowerOf ==
    [c \in Range(UpperChars) \cup TsToks |->
        IF c \in TsToks THEN TsTokLower(CHOOSE t \in Clock : c = TsTok(t))
        ELSE LowerChars[CHOOSE i \in DOMAIN UpperChars : UpperChars[i] = c]]

ToLowerChar(c) == IF c \in DOMAIN LowerOf THEN LowerOf[c] ELSE c

ToLower(s) == [i \in DOMAIN s |-> ToLowerChar(s[i])]

RECURSIVE TrimStart(_)
TrimStart(s) ==
    IF s # <<>> /\ IsSpace(Head(s)) THEN TrimStart(Tail(s)) ELSE s

RECURSIVE TrimEnd(_)
TrimEnd(s) ==
    IF s # <<>> /\ IsSpace(s[Len(s)]) THEN TrimEnd(SubSeq(s, 1, Len(s) - 1)) ELSE s

Trim(s) == TrimEnd(TrimStart(s))

InClass(c, class) ==
    CASE class = "space" -> IsSpace(c)
      [] class = "unsafe" -> ~IsSafeChar(c)
      [] class = "hyphen" -> c = "-"

\* s.replace(/<class>+/g, "-"): every maximal run of the class becomes one "-"
RECURSIVE ReplaceRuns(_, _)
ReplaceRuns(s, class) ==
    IF s = <<>> THEN <<>>
    ELSE IF InClass(Head(s), class)
         THEN IF Len(s) > 1 /\ InClass(s[2], class)
              THEN ReplaceRuns(Tail(s), class)
              ELSE <<"-">> \o ReplaceRuns(Tail(s), class)
         ELSE <<Head(s)>> \o ReplaceRuns(Tail(s), class)

RECURSIVE StripLeadingHyphens(_)
StripLeadingHyphens(s) ==
    IF s # <<>> /\ Head(s) = "-" THEN StripLeadingHyphens(Tail(s)) ELSE s

RECURSIVE StripTrailingHyphens(_)
StripTrailingHyphens(s) ==
    IF s # <<>> /\ s[Len(s)] = "-"
    THEN StripTrailingHyphens(SubSeq(s, 1, Len(s) - 1)) ELSE s

\* s.slice(0, n), n counted in characters
RECURSIVE SliceChars(_, _)
SliceChars(s, n) ==
    IF s = <<>> \/ CharLen(Head(s)) > n THEN <<>>
    ELSE <<Head(s)>> \o SliceChars(Tail(s), n - CharLen(Head(s)))

Entry == <<"e","n","t","r","y">>

\* the characters outside [a-z0-9._-] are left in the slug
toSafeSlugKeepingUnsafe(raw) ==
    LET normalized ==
            ToLower(StripTrailingHyphens(StripLeadingHyphens(
                ReplaceRuns(ReplaceRuns(Trim(raw), "space"), "hyphen"))))
        cut == SliceChars(normalized, MAX_SLUG_LENGTH)
    IN IF cut = <<>> THEN Entry ELSE cut

toSafeSlug(raw) ==
    LET normalized ==
            ToLower(StripTrailingHyphens(StripLeadingHyphens(
                ReplaceRuns(ReplaceRuns(ReplaceRuns(Trim(raw), "space"),
                                        "unsafe"), "hyphen"))))
        cut == SliceChars(normalized, MAX_SLUG_LENGTH)
    IN IF cut = <<>> THEN Entry ELSE cut

\* ------------------------------------------------------------------ paths
Seg(name) == <<name>>
Md == <<".", "m", "d">>
NoPath == <<>>
DotDot == Seg("..")

HostRoot == <<>>
WorkspaceDir == <<Seg("host"), Seg("ws")>>
MEMORY_ROOT == Seg("memory")
VAULT_DIR == Seg("Vault")
THREADBORN_DIR == Seg("ThreadBorn")
BRIDGETHREAD_DIR == Seg("BridgeThread")
LABYRINTH_DIR == Seg("Labyrinth")
MEMORY_SOURCE_DIRS == {THREADBORN_DIR, BRIDGETHREAD_DIR, LABYRINTH_DIR}

IsParentSeg(s) == s = DotDot \/ s = <<".", ".">>

\* path.resolve(base, rel) for a relative rel: "." and empty segments drop out,
\* ".." removes the last segment (and stays at the host root)
RECURSIVE PathResolve(_, _)
PathResolve(base, rel) ==
    IF rel = <<>> THEN base
    ELSE IF IsParentSeg(Head(rel))
         THEN PathResolve(IF base = <<>> THEN base
                          ELSE SubSeq(base, 1, Len(base) - 1), Tail(rel))
         ELSE IF Head(rel) = Seg(".") \/ Head(rel) = <<>>
              THEN PathResolve(base, Tail(rel))
              ELSE PathResolve(Append(base, Head(rel)), Tail(rel))

CommonLen(a, b) ==
    LET m == IF Len(a) < Len(b) THEN Len(a) ELSE Len(b)
        same == {k \in 0..m : SubSeq(a, 1, k) = SubSeq(b, 1, k)}
    IN CHOOSE k \in same : \A j \in same : j <= k

\* path.relative(from, to)
PathRelative(from, to) ==
    LET k == CommonLen(from, to)
    IN [i \in 1..(Len(from) - k) |-> DotDot] \o SubSeq(to, k + 1, Len(to))

\* relative.startsWith("..") on the joined string
StartsWithDotDot(rel) ==
    /\ rel # <<>>
    /\ rel[1] # <<>>
    /\ \/ rel[1][1] = ".."
       \/ Len(rel[1]) >= 2 /\ rel[1][1] = "." /\ rel[1][2] = "."

PathJoin(base, rel) == base \o rel
Basename(p) == p[Len(p)]
Dirname(p) == SubSeq(p, 1, Len(p) - 1)
Ancestors(p) == {SubSeq(p, 1, k) : k \in 0..Len(p)}

\* resolveWorkspacePath: the resolved path, or the error (path.isAbsolute of a
\* POSIX relative path is never true)
resolveWorkspacePath(workspaceDir, relPath) ==
    LET resolved == PathResolve(workspaceDir, relPath)
        relative == PathRelative(workspaceDir, resolved)
    IN IF relative = <<>> \/ StartsWithDotDot(relative)
       THEN [err |-> "PathEscape", path |-> NoPath]
       ELSE [err |-> "none", path |-> resolved]

resolveMemoryDir(workspaceDir, dirName) ==
    PathJoin(workspaceDir, <<MEMORY_ROOT, dirName>>)

isPathWithin(parent, candidate) ==
    LET relative == PathRelative(parent, candidate)
    IN relative # <<>> /\ ~StartsWithDotDot(relative)

resolveAllowedMemorySourcePath(workspaceDir, relPath) ==
    LET r == resolveWorkspacePath(workspaceDir, relPath)
    IN IF r.err # "none" THEN r
       ELSE IF \E dir \in MEMORY_SOURCE_DIRS :
                   isPathWithin(resolveMemoryDir(workspaceDir, dir), r.path)
            THEN r
            ELSE [err |-> "DisallowedSource", path |-> NoPath]

resolveVaultDir(workspaceDir) == resolveMemoryDir(workspaceDir, VAULT_DIR)

\* ------------------------------------------------------ file contents
\* A file's content is a sequence of blocks.  The first block of an entry
\* written by the store holds the front matter (the MemoryMetadata keys, an
\* optional key that is absent being the empty value), the heading, the
\* "- Key: value" lines and the body text; fs.appendFile adds a block at the
\* end.  A file without front matter has fm = FALSE.
NoDenied ==
    [source |-> NoPath, title |-> <<>>, append |-> "", target |-> NoPath,
     source_session_id |-> "", source_trigger |-> ""]

EmptyMetadata ==
    [id |-> NoPath, created_at |-> -1, source_session_id |-> "",
     source_trigger |-> "", memory_type |-> "", sealed |-> "",
     promoted_from_id |-> NoPath, promoted_from_source_session_id |-> "",
     promoted_from_source_trigger |-> "", promoted_from_memory_type |-> "",
     sealed_from_id |-> NoPath, sealed_from_source_session_id |-> "",
     sealed_from_source_trigger |-> "", sealed_from_memory_type |-> ""]

MetadataKeys == DOMAIN EmptyMetadata

\* what an injection audit entry records; a block of any other kind holds none
NoAttempt ==
    [timestamp |-> -1, sessionKey |-> "", channel |-> "", matches |-> <<>>,
     rawInput |-> <<>>]

\* what a record of a Vault query holds; a block of any other kind holds none
NoAccess == [scope |-> "", results |-> -1, titles |-> {}]

Block(kind, fm, metadata, title, from, at, tags, note, denied) ==
    [kind |-> kind, fm |-> fm, metadata |-> metadata, title |-> title,
     from |-> from, at |-> at, tags |-> tags, note |-> note, denied |-> denied,
     attempt |-> NoAttempt, access |-> NoAccess]

\* formatYamlValue: a boolean is written bare, a string JSON-quoted
formatYamlValue(value) ==
    IF value \in BOOLEAN THEN (IF value THEN "true" ELSE "false") ELSE value

\* buildFrontMatter: the six required keys, then the optional keys whose value
\* is a non-empty string (an empty one is left out, which reads back as absent)
buildFrontMatter(metadata) ==
    [metadata EXCEPT !.sealed = formatYamlValue(metadata.sealed)]

\* parseFrontMatter: without a leading "---" block the metadata is empty and
\* the body is the whole content; the body text is carried as the first
\* block's note
parseFrontMatter(content) ==
    IF content # <<>> /\ content[1].fm
    THEN [metadata |-> content[1].metadata, body |-> content[1].note]
    ELSE [metadata |-> EmptyMetadata,
          body |-> IF content = <<>> THEN "" ELSE content[1].note]

\* createMetadata: id is randomUUID(), a value no other entry carries; the
\* model names it after the path the entry is written to.  A provenance key is
\* copied only when the parsed value is a string (absent = empty here).
createMetadata(id, t, sourceSessionId, sourceTrigger, memoryType, sealed, promotedFrom, sealedFrom) ==
    [id |-> id, created_at |-> t,
     source_session_id |-> sourceSessionId,
     source_trigger |-> sourceTrigger,
     memory_type |-> memoryType,
     sealed |-> sealed,
     promoted_from_id |-> promotedFrom.id,
     promoted_from_source_session_id |-> promotedFrom.source_session_id,
     promoted_from_source_trigger |-> promotedFrom.source_trigger,
     promoted_from_memory_type |-> promotedFrom.memory_type,
     sealed_from_id |-> sealedFrom.id,
     sealed_from_source_session_id |-> sealedFrom.source_session_id,
     sealed_from_source_trigger |-> sealedFrom.source_trigger,
     sealed_from_memory_type |-> sealedFrom.memory_type]

\* ------------------------------------------------- unique file allocator
\* the suffix is the attempt index: base.md, base-1.md, base-2.md
AttemptNameFromIndex(filenameBase, attempt) ==
    filenameBase
        \o (IF attempt = 0 THEN <<>> ELSE <<"-", ToString(attempt)>>)
        \o Md

\* the file name of attempt number `attempt` (0-based)
AttemptName(filenameBase, attempt) ==
    filenameBase
        \o (IF attempt = 0 THEN <<>> ELSE <<"-", ToString(attempt + 1)>>)
        \o Md

Exists(fs, ds, p) == p \in DOMAIN fs \/ p \in ds

\* ensureDir: fs.mkdir(dir, {recursive: true})
ensureDir(ds, dir) == ds \cup Ancestors(dir)

\* The outcome of a store operation: the error ("none" on success), the file
\* written, and the file system it leaves.
Outcome(err, path, fs, ds) == [err |-> err, path |-> path, files |-> fs, dirs |-> ds]

\* The attempts of writeUniqueFile that find their name free (wx succeeds).
FreeAttempts(fs, ds, dir, filenameBase, allowSuffix) ==
    LET maxAttempts == IF allowSuffix THEN MaxAttempts ELSE 1
    IN {a \in 0..(maxAttempts - 1) :
           ~Exists(fs, ds, Append(dir, AttemptName(filenameBase, a)))}

\* The path writeUniqueFile creates: the first attempt whose name is free.
AllocatedPath(fs, ds, dir, filenameBase, allowSuffix) ==
    LET free == FreeAttempts(fs, ds, dir, filenameBase, allowSuffix)
    IN IF free = {} THEN NoPath
       ELSE Append(dir, AttemptName(filenameBase,
                        CHOOSE a \in free : \A b \in free : a <= b))

\* flag "w" in place of "wx": the first name is written whether or not it exists
writeUniqueFileOverwriting(fs, ds, dir, filenameBase, content, allowSuffix, io) ==
    LET target == Append(dir, AttemptName(filenameBase, 0))
    IN IF io = "fail" THEN Outcome("IOError", NoPath, fs, ensureDir(ds, dir))
       ELSE Outcome("none", target, (target :> content) @@ fs, ensureDir(ds, dir))

\* writeUniqueFile.  io = "fail": fs.writeFile throws an error other than
\* EEXIST, which is rethrown.  The directory has been created by then.
writeUniqueFile(fs, ds, dir, filenameBase, content, allowSuffix, io) ==
    LET ds2 == ensureDir(ds, dir)
        target == AllocatedPath(fs, ds, dir, filenameBase, allowSuffix)
    IN IF io = "fail" THEN Outcome("IOError", NoPath, fs, ds2)
       ELSE IF target = NoPath THEN Outcome("AllocationExhausted", NoPath, fs, ds2)
       ELSE Outcome("none", target, (target :> content) @@ fs, ds2)

\* ------------------------------------------------- governed memory store
ThreadBornEntryTitle ==
    <<"T","h","r","e","a","d","B","o","r","n"," ","E","n","t","r","y">>
LabyrinthSnapshotTitle ==
    <<"L","a","b","y","r","i","n","t","h"," ","S","n","a","p","s","h","o","t">>

NoProvenance == EmptyMetadata

\* tags?.filter(Boolean).map(trim).filter(Boolean) ?? []
CleanTags(tags) == SelectSeq(tags, LAMBDA tag : tag # "")

\* writeThreadbornEntry.  body is the body text with, for a denial entry, the
\* fields its lines record.
writeThreadbornEntry(fs, ds, t, io, title0, body, tags0, sourceSessionId, sourceTrigger) ==
    LET title == IF Trim(title0) = <<>> THEN ThreadBornEntryTitle ELSE Trim(title0)
        tags == CleanTags(tags0)
        filenameBase == timestampSlug(t) \o <<"-">> \o toSafeSlug(title)
        dir == resolveMemoryDir(WorkspaceDir, THREADBORN_DIR)
        metadata == createMetadata(AllocatedPath(fs, ds, dir, filenameBase, TRUE), t,
                                   sourceSessionId, sourceTrigger, "ThreadBorn", FALSE,
                                   NoProvenance, NoProvenance)
        content == <<Block("entry", TRUE, buildFrontMatter(metadata), title, NoPath, t,
                           tags, body.note, body.denied)>>
    IN writeUniqueFile(fs, ds, dir, filenameBase, content, TRUE, io)

\* fs.readFile(path, "utf-8"): only a file can be read
CanRead(fs, p) == p \in DOMAIN fs

\* params.title?.trim() || path.basename(resolvedSource)
BaseTitle(title, resolvedSource) ==
    IF Trim(title) = <<>> THEN Basename(resolvedSource) ELSE Trim(title)

\* writeBridgeThreadEntry
writeBridgeThreadEntry(fs, ds, t, io, sourcePath, title, sourceSessionId, sourceTrigger) ==
    LET r == resolveAllowedMemorySourcePath(WorkspaceDir, sourcePath)
        resolvedSource == r.path
        vaultDir == resolveVaultDir(WorkspaceDir)
        parsed == parseFrontMatter(fs[resolvedSource])
        baseTitle == BaseTitle(title, resolvedSource)
        filenameBase == timestampSlug(t) \o <<"-">> \o toSafeSlug(baseTitle)
        dir == resolveMemoryDir(WorkspaceDir, BRIDGETHREAD_DIR)
        metadata == createMetadata(AllocatedPath(fs, ds, dir, filenameBase, TRUE), t,
                                   sourceSessionId, sourceTrigger, "BridgeThread", FALSE,
                                   parsed.metadata, NoProvenance)
        content == <<Block("entry", TRUE, buildFrontMatter(metadata), baseTitle,
                           PathRelative(WorkspaceDir, resolvedSource), t, <<>>,
                           parsed.body, NoDenied)>>
    IN IF r.err # "none" THEN Outcome(r.err, NoPath, fs, ds)
       ELSE IF isPathWithin(vaultDir, resolvedSource)
            THEN Outcome("PromoteFromVault", NoPath, fs, ds)
       ELSE IF ~CanRead(fs, resolvedSource) THEN Outcome("IOError", NoPath, fs, ds)
       ELSE writeUniqueFile(fs, ds, dir, filenameBase, content, TRUE, io)

\* fs.writeFile(target, source content) in place of fs.appendFile
VaultAppendReplacing(fs, ds, t, io, resolvedSource, parsed, targetPath) ==
    LET target == resolveWorkspacePath(WorkspaceDir, targetPath).path
    IN IF target \notin DOMAIN fs THEN Outcome("TargetNotFound", NoPath, fs, ds)
       ELSE Outcome("none", target, [fs EXCEPT ![target] = fs[resolvedSource]], ds)

\* fs.appendFile without the fs.access check before it: a missing target is created
VaultAppendWithoutAccessCheck(fs, ds, t, io, resolvedSource, parsed, targetPath) ==
    LET dir == resolveMemoryDir(WorkspaceDir, VAULT_DIR)
        rt == resolveWorkspacePath(WorkspaceDir, targetPath)
        resolvedTarget == rt.path
        appendBlock == Block("append", FALSE, EmptyMetadata, <<>>,
                             PathRelative(WorkspaceDir, resolvedSource), t, <<>>,
                             parsed.body, NoDenied)
    IN IF targetPath = NoPath THEN Outcome("MissingTarget", NoPath, fs, ds)
       ELSE IF rt.err # "none" THEN Outcome(rt.err, NoPath, fs, ds)
       ELSE IF ~isPathWithin(dir, resolvedTarget)
            THEN Outcome("TargetOutsideVault", NoPath, fs, ds)
       ELSE IF io = "fail" \/ resolvedTarget \in ds
            THEN Outcome("IOError", NoPath, fs, ds)
       ELSE IF resolvedTarget \notin DOMAIN fs
            THEN Outcome("none", resolvedTarget, (resolvedTarget :> <<appendBlock>>) @@ fs, ds)
       ELSE Outcome("none", resolvedTarget,
                    [fs EXCEPT ![resolvedTarget] = Append(@, appendBlock)], ds)

\* writeVaultEntry, append branch (params.append truthy)
VaultAppend(fs, ds, t, io, resolvedSource, parsed, targetPath) ==
    LET dir == resolveMemoryDir(WorkspaceDir, VAULT_DIR)
        rt == resolveWorkspacePath(WorkspaceDir, targetPath)
        resolvedTarget == rt.path
        appendBlock == Block("append", FALSE, EmptyMetadata, <<>>,
                             PathRelative(WorkspaceDir, resolvedSource), t, <<>>,
                             parsed.body, NoDenied)
    IN IF targetPath = NoPath THEN Outcome("MissingTarget", NoPath, fs, ds)
       ELSE IF rt.err # "none" THEN Outcome(rt.err, NoPath, fs, ds)
       ELSE IF ~isPathWithin(dir, resolvedTarget)
            THEN Outcome("TargetOutsideVault", NoPath, fs, ds)
       ELSE IF ~Exists(fs, ds, resolvedTarget)
            THEN Outcome("TargetNotFound", NoPath, fs, ds)
       ELSE IF io = "fail" \/ resolvedTarget \notin DOMAIN fs
            THEN Outcome("IOError", NoPath, fs, ds)
       ELSE Outcome("none", resolvedTarget,
                    [fs EXCEPT ![resolvedTarget] = Append(@, appendBlock)], ds)

\* sealedFrom carries the id the source was promoted from, not the source's own
writeVaultEntryLinkingOrigin(fs, ds, t, io, sourcePath, title, sourceSessionId, sourceTrigger, append, targetPath) ==
    LET r == resolveAllowedMemorySourcePath(WorkspaceDir, sourcePath)
        resolvedSource == r.path
        parsed == parseFrontMatter(fs[resolvedSource])
        baseTitle == BaseTitle(title, resolvedSource)
        filenameBase == timestampSlug(t) \o <<"-">> \o toSafeSlug(baseTitle)
        dir == resolveMemoryDir(WorkspaceDir, VAULT_DIR)
        origin == IF parsed.metadata.promoted_from_id = NoPath THEN parsed.metadata
                  ELSE [parsed.metadata EXCEPT !.id = parsed.metadata.promoted_from_id]
        metadata == createMetadata(AllocatedPath(fs, ds, dir, filenameBase, TRUE), t,
                                   sourceSessionId, sourceTrigger, "Vault", TRUE,
                                   NoProvenance, origin)
        content == <<Block("entry", TRUE, buildFrontMatter(metadata), baseTitle,
                           PathRelative(WorkspaceDir, resolvedSource), t, <<>>,
                           parsed.body, NoDenied)>>
    IN IF r.err # "none" THEN Outcome(r.err, NoPath, fs, ds)
       ELSE IF ~CanRead(fs, resolvedSource) THEN Outcome("IOError", NoPath, fs, ds)
       ELSE IF append = "true"
            THEN VaultAppend(fs, ds, t, io, resolvedSource, parsed, targetPath)
       ELSE IF targetPath # NoPath
            THEN Outcome("InvalidAppendCombination", NoPath, fs, ds)
       ELSE writeUniqueFile(fs, ds, dir, filenameBase, content, TRUE, io)

\* the header of the sealed entry says sealed: false
writeVaultEntryUnsealed(fs, ds, t, io, sourcePath, title, sourceSessionId, sourceTrigger, append, targetPath) ==
    LET r == resolveAllowedMemorySourcePath(WorkspaceDir, sourcePath)
        resolvedSource == r.path
        parsed == parseFrontMatter(fs[resolvedSource])
        baseTitle == BaseTitle(title, resolvedSource)
        filenameBase == timestampSlug(t) \o <<"-">> \o toSafeSlug(baseTitle)
        dir == resolveMemoryDir(WorkspaceDir, VAULT_DIR)
        metadata == createMetadata(AllocatedPath(fs, ds, dir, filenameBase, TRUE), t,
                                   sourceSessionId, sourceTrigger, "Vault", FALSE,
                                   NoProvenance, parsed.metadata)
        content == <<Block("entry", TRUE, buildFrontMatter(metadata), baseTitle,
                           PathRelative(WorkspaceDir, resolvedSource), t, <<>>,
                           parsed.body, NoDenied)>>
    IN IF r.err # "none" THEN Outcome(r.err, NoPath, fs, ds)
       ELSE IF ~CanRead(fs, resolvedSource) THEN Outcome("IOError", NoPath, fs, ds)
       ELSE IF append = "true"
            THEN VaultAppend(fs, ds, t, io, resolvedSource, parsed, targetPath)
       ELSE IF targetPath # NoPath
            THEN Outcome("InvalidAppendCombination", NoPath, fs, ds)
       ELSE writeUniqueFile(fs, ds, dir, filenameBase, content, TRUE, io)

\* writeVaultEntry.  append is "unset", "true" or "false"; targetPath is NoPath
\* when absent.
writeVaultEntry(fs, ds, t, io, sourcePath, title, sourceSessionId, sourceTrigger, append, targetPath) ==
    LET r == resolveAllowedMemorySourcePath(WorkspaceDir, sourcePath)
        resolvedSource == r.path
        parsed == parseFrontMatter(fs[resolvedSource])
        baseTitle == BaseTitle(title, resolvedSource)
        filenameBase == timestampSlug(t) \o <<"-">> \o toSafeSlug(baseTitle)
        dir == resolveMemoryDir(WorkspaceDir, VAULT_DIR)
        metadata == createMetadata(AllocatedPath(fs, ds, dir, filenameBase, TRUE), t,
                                   sourceSessionId, sourceTrigger, "Vault", TRUE,
                                   NoProvenance, parsed.metadata)
        content == <<Block("entry", TRUE, buildFrontMatter(metadata), baseTitle,
                           PathRelative(WorkspaceDir, resolvedSource), t, <<>>,
                           parsed.body, NoDenied)>>
    IN IF r.err # "none" THEN Outcome(r.err, NoPath, fs, ds)
       ELSE IF ~CanRead(fs, resolvedSource) THEN Outcome("IOError", NoPath, fs, ds)
       ELSE IF append = "true"
            THEN VaultAppend(fs, ds, t, io, resolvedSource, parsed, targetPath)
       ELSE IF targetPath # NoPath
            THEN Outcome("InvalidAppendCombination", NoPath, fs, ds)
       ELSE writeUniqueFile(fs, ds, dir, filenameBase, content, TRUE, io)

\* writeLabyrinthSnapshot: no suffix retry
writeLabyrinthSnapshot(fs, ds, t, io, title0, body, sourceSessionId, sourceTrigger) ==
    LET title == IF Trim(title0) = <<>> THEN LabyrinthSnapshotTitle ELSE Trim(title0)
        filenameBase == timestampSlug(t) \o <<"-">> \o toSafeSlug(title)
        dir == resolveMemoryDir(WorkspaceDir, LABYRINTH_DIR)
        metadata == createMetadata(AllocatedPath(fs, ds, dir, filenameBase, FALSE), t,
                                   sourceSessionId, sourceTrigger, "Labyrinth", FALSE,
                                   NoProvenance, NoProvenance)
        content == <<Block("entry", TRUE, buildFrontMatter(metadata), title, NoPath, t,
                           <<>>, body.note, body.denied)>>
    IN writeUniqueFile(fs, ds, dir, filenameBase, content, FALSE, io)

\* -------------------------------------------------------- sealing gate
\* isTruthyEnvValue (infra/env.js)
isTruthyEnvValue(value) == value \in {"1", "true", "yes", "on"}

\* resolveSaniVaultSealingEnabled(_cfg, env): the configuration is not read
resolveSaniVaultSealingEnabled(config, envValue) ==
    IF envValue # "unset" THEN isTruthyEnvValue(envValue) ELSE FALSE

\* ------------------------------------------------------------- the tools
\* A tool call: the parameters the caller supplies (source, title, append,
\* target, source_session_id, source_trigger, body, tags) and the options the
\* tool was created with (config: "none" when undefined, else the value of
\* agents.defaults.sani.vaultSealingEnabled: "flagUnset", "flagTrue",
\* "flagFalse"; sessionKey).
\* the config a flag read is given: undefined, or one whose
\* agents.defaults.sani.modeTtlMinutes is raw (<<>> when it is not a number)
Config(defined, raw) == [defined |-> defined, modeTtlMinutes |-> raw]

\* content and modeConfig are the text of a received message and the config of
\* a flag read, channel the channel a scanned text arrived over, scope the
\* scope of a Vault query; a call they do not belong to holds the empty value
Request(source, title, append, target, ssid, strig, config, sessionKey, body, tags) ==
    [source |-> source, title |-> title, append |-> append, target |-> target,
     source_session_id |-> ssid, source_trigger |-> strig,
     config |-> config, sessionKey |-> sessionKey, body |-> body, tags |-> tags,
     content |-> <<>>, modeConfig |-> Config(FALSE, <<>>), channel |-> "",
     scope |-> "", messages |-> <<>>, limit |-> -1]

Body(note, denied) == [note |-> note, denied |-> denied]

\* What a tool call leaves: the error raised to the caller ("none" when it
\* returns), the entry it returns, the file system, and for vault_seal the
\* outcome of the denial audit write ("skipped" when none was attempted).
ToolOutcome(err, path, fs, ds, audit, auditPath) ==
    [err |-> err, path |-> path, files |-> fs, dirs |-> ds,
     audit |-> audit, auditPath |-> auditPath]

FromStore(w) == ToolOutcome(w.err, w.path, w.files, w.dirs, "skipped", NoPath)

VaultSealDeniedTitle ==
    <<"V","a","u","l","t"," ","S","e","a","l"," ","D","e","n","i","e","d">>

\* the audit entry leaves out the append state and the target
logVaultSealDeniedWithoutTarget(fs, ds, t, io, source, title, append, targetPath, sourceSessionId, sourceTrigger) ==
    LET body == Body("Vault sealing request denied",
                     [source |-> source, title |-> title, append |-> "unset",
                      target |-> NoPath,
                      source_session_id |-> sourceSessionId,
                      source_trigger |-> sourceTrigger])
    IN writeThreadbornEntry(fs, ds, t, io, VaultSealDeniedTitle, body,
                            <<"vault:denied", "admin-denied">>,
                            sourceSessionId, sourceTrigger)

\* logVaultSealDenied: the lines of the body record the request as given
logVaultSealDenied(fs, ds, t, io, source, title, append, targetPath, sourceSessionId, sourceTrigger) ==
    LET body == Body("Vault sealing request denied",
                     [source |-> source, title |-> title, append |-> append,
                      target |-> targetPath,
                      source_session_id |-> sourceSessionId,
                      source_trigger |-> sourceTrigger])
    IN writeThreadbornEntry(fs, ds, t, io, VaultSealDeniedTitle, body,
                            <<"vault:denied", "admin-denied">>,
                            sourceSessionId, sourceTrigger)

\* toolName.toUpperCase()
ToUpperCase(toolName) ==
    CASE toolName = "vault_seal" -> "VAULT_SEAL"
      [] toolName = "bridge_promote" -> "BRIDGE_PROMOTE"

\* params.sessionKey?.trim(): an absent key and a blank one are both falsy
TrimKey(sessionKey) == IF sessionKey \in {"", " "} THEN "" ELSE sessionKey

\* the session record is used whether or not it holds a sessionId
resolveToolProvenanceUnchecked(st, config, sessionKey, toolName) ==
    IF TrimKey(sessionKey) \in DOMAIN st
    THEN [err |-> "none", sourceSessionId |-> st[TrimKey(sessionKey)].sessionId,
          sourceTrigger |-> ToUpperCase(toolName)]
    ELSE [err |-> "none", sourceSessionId |-> "", sourceTrigger |-> ToUpperCase(toolName)]

\* resolveToolProvenance
resolveToolProvenance(st, config, sessionKey, toolName) ==
    IF config = "none" \/ TrimKey(sessionKey) = ""
    THEN [err |-> "ProvenanceUnresolved", sourceSessionId |-> "", sourceTrigger |-> ""]
    ELSE IF TrimKey(sessionKey) \notin DOMAIN st \/ st[TrimKey(sessionKey)].sessionId = ""
    THEN [err |-> "ProvenanceUnresolved", sourceSessionId |-> "", sourceTrigger |-> ""]
    ELSE [err |-> "none", sourceSessionId |-> st[TrimKey(sessionKey)].sessionId,
          sourceTrigger |-> ToUpperCase(toolName)]

\* createThreadbornWriteTool.execute
threadbornWriteExecute(fs, ds, t, io, req) ==
    FromStore(writeThreadbornEntry(fs, ds, t, io, req.title, req.body, req.tags,
                                   req.source_session_id, req.source_trigger))

\* createBridgePromoteTool.execute
bridgePromoteExecute(fs, ds, t, io, st, req) ==
    LET provenance == resolveToolProvenance(st, req.config, req.sessionKey, "bridge_promote")
    IN IF resolveAllowedMemorySourcePath(WorkspaceDir, req.source).err # "none"
       THEN ToolOutcome("DisallowedSource", NoPath, fs, ds, "skipped", NoPath)
       ELSE IF provenance.err # "none"
            THEN ToolOutcome(provenance.err, NoPath, fs, ds, "skipped", NoPath)
       ELSE FromStore(writeBridgeThreadEntry(fs, ds, t, io, req.source, req.title,
                          provenance.sourceSessionId, provenance.sourceTrigger))

\* the gate is consulted in seal mode only
vaultSealAppendUngated(fs, ds, t, io, envValue, st, req) ==
    LET denied == logVaultSealDenied(fs, ds, t, io, req.source, req.title, req.append,
                                     req.target, req.source_session_id,
                                     req.source_trigger)
        provenance == resolveToolProvenance(st, req.config, req.sessionKey, "vault_seal")
    IN IF req.append # "true" /\ ~resolveSaniVaultSealingEnabled(req.config, envValue)
       THEN ToolOutcome("SealingDisabled", NoPath, denied.files, denied.dirs,
                        denied.err, denied.path)
       ELSE FromStore(writeVaultEntry(fs, ds, t, io, req.source, req.title,
                          provenance.sourceSessionId, provenance.sourceTrigger,
                          req.append, req.target))

\* no try/catch around the audit write: its error reaches the caller
vaultSealAuditErrorEscapes(fs, ds, t, io, envValue, st, req) ==
    LET denied == logVaultSealDenied(fs, ds, t, io, req.source, req.title, req.append,
                                     req.target, req.source_session_id,
                                     req.source_trigger)
        provenance == resolveToolProvenance(st, req.config, req.sessionKey, "vault_seal")
    IN IF ~resolveSaniVaultSealingEnabled(req.config, envValue)
       THEN ToolOutcome(IF denied.err = "none" THEN "SealingDisabled" ELSE denied.err,
                        NoPath, denied.files, denied.dirs, denied.err, denied.path)
       ELSE FromStore(writeVaultEntry(fs, ds, t, io, req.source, req.title,
                          provenance.sourceSessionId, provenance.sourceTrigger,
                          req.append, req.target))

\* createVaultSealTool.execute
vaultSealExecute(fs, ds, t, io, envValue, st, req) ==
    LET denied == logVaultSealDenied(fs, ds, t, io, req.source, req.title, req.append,
                                     req.target, req.source_session_id,
                                     req.source_trigger)
        provenance == resolveToolProvenance(st, req.config, req.sessionKey, "vault_seal")
    IN IF ~resolveSaniVaultSealingEnabled(req.config, envValue)
       THEN ToolOutcome("SealingDisabled", NoPath, denied.files, denied.dirs,
                        denied.err, denied.path)
       ELSE IF resolveAllowedMemorySourcePath(WorkspaceDir, req.source).err # "none"
            THEN ToolOutcome("DisallowedSource", NoPath, fs, ds, "skipped", NoPath)
       ELSE IF provenance.err # "none"
            THEN ToolOutcome(provenance.err, NoPath, fs, ds, "skipped", NoPath)
       ELSE FromStore(writeVaultEntry(fs, ds, t, io, req.source, req.title,
                          provenance.sourceSessionId, provenance.sourceTrigger,
                          req.append, req.target))

\* createLabyrinthSnapshotTool.execute
labyrinthSnapshotExecute(fs, ds, t, io, req) ==
    FromStore(writeLabyrinthSnapshot(fs, ds, t, io, req.title, req.body,
                                     req.source_session_id, req.source_trigger))

\* ---------------------------------------------------------------- inputs
SessionKey == "main:direct:test"
NoIdKey == "agent:no-id"
UnknownKey == "agent:unknown"

\* a file of the host outside the workspace, and a file of the workspace
\* outside memory/
OutsideFile == <<Seg("host"), <<"s","e","c","r","e","t",".","m","d">>>>
ElsewhereFile == Append(WorkspaceDir, <<"s","o","u","r","c","e",".","m","d">>)

RawContent(note) ==
    <<Block("raw", FALSE, EmptyMetadata, <<>>, NoPath, -1, <<>>, note, NoDenied)>>

WsFiles(fs) == {p \in DOMAIN fs : isPathWithin(WorkspaceDir, p)}
FilesIn(fs, dir) == {p \in DOMAIN fs : isPathWithin(dir, p)}
MemoryFiles(fs) == FilesIn(fs, Append(WorkspaceDir, MEMORY_ROOT))
VaultFiles(fs) == FilesIn(fs, resolveVaultDir(WorkspaceDir))
AllowedFiles(fs) ==
    UNION {FilesIn(fs, resolveMemoryDir(WorkspaceDir, d)) : d \in MEMORY_SOURCE_DIRS}
RelOf(p) == PathRelative(WorkspaceDir, p)

EscapingPath == <<DotDot, Basename(OutsideFile)>>
RootPath == <<MEMORY_ROOT, DotDot, Seg(".")>>
TierDirPath == <<MEMORY_ROOT, THREADBORN_DIR>>
ElsewherePath == RelOf(ElsewhereFile)
MissingSourcePath == <<MEMORY_ROOT, THREADBORN_DIR, <<"g","o","n","e",".","m","d">>>>
MissingTargetPath == <<MEMORY_ROOT, VAULT_DIR, <<"g","o","n","e",".","m","d">>>>

\* a Vault file named by a path that climbs out of memory/ThreadBorn
ViaThreadBorn(p) == <<MEMORY_ROOT, THREADBORN_DIR, DotDot, VAULT_DIR, Basename(p)>>

VaultEntryTitle == <<"V","a","u","l","t"," ","E","n","t","r","y">>

Caller(config, sessionKey, ssid, strig) ==
    [config |-> config, sessionKey |-> sessionKey,
     source_session_id |-> ssid, source_trigger |-> strig]

BaseCaller == Caller("flagUnset", SessionKey, "spoofed-session", "spoofed-trigger")

NoBody == Body("", NoDenied)

ToolRequest(source, title, append, target, caller) ==
    Request(source, title, append, target, caller.source_session_id,
            caller.source_trigger, caller.config, caller.sessionKey, NoBody, <<>>)

SealCall(source, caller) == ToolRequest(source, VaultEntryTitle, "unset", NoPath, caller)
AppendCall(source, target) == ToolRequest(source, VaultEntryTitle, "true", target, BaseCaller)
PromoteCall(source, caller) == ToolRequest(source, <<>>, "unset", NoPath, caller)

NoteTitle == <<"N","o","t","e">>

\* threadborn_write and labyrinth_snapshot record the provenance the caller gives
WriteRequests ==
    {Request(NoPath, NoteTitle, "unset", NoPath, "sani-session", "MANUAL", "flagUnset",
             SessionKey, Body("note", NoDenied), <<>>)}

IoOutcomes == {"ok", "fail"}
NoFault == {"ok"}

\* the first note threadborn_write creates
FirstNote ==
    <<MEMORY_ROOT, THREADBORN_DIR,
      AttemptName(timestampSlug(0) \o <<"-">> \o toSafeSlug(NoteTitle), 0)>>

\* the calls of the memory lifecycle: write, promote, seal, append
LifecycleSeals(fs) ==
    {SealCall(RelOf(p), BaseCaller) : p \in AllowedFiles(fs)}
    \cup {AppendCall(FirstNote, RelOf(tg)) : tg \in VaultFiles(fs)}
LifecyclePromotes(fs) == {PromoteCall(RelOf(p), BaseCaller) : p \in AllowedFiles(fs)}

\* ----------------------------------------------------------- state machine
\* The slots in which store writes run concurrently, and a slot not in use.
Slots == 1..MaxCalls

IdleCall ==
    [status |-> "idle", dir |-> NoPath, filenameBase |-> <<>>, content |-> <<>>,
     allowSuffix |-> TRUE, attempt |-> 0, path |-> NoPath, err |-> "none"]

\* isHeySani, isWhoAmI and isExitSani of the message_received handler
Triggers(hey, who, exit) == [isHeySani |-> hey, isWhoAmI |-> who, isExitSani |-> exit]

\* SaniSessionFlags, and the value a call that is not a flag read leaves
Flags(saniMode, labyrinthMode) == [saniMode |-> saniMode, labyrinthMode |-> labyrinthMode]

NoCall ==
    [op |-> "none", req |-> ToolRequest(NoPath, <<>>, "unset", NoPath, BaseCaller),
     result |-> "none", path |-> NoPath, audit |-> "skipped", auditPath |-> NoPath,
     flags |-> Flags(FALSE, FALSE), triggers |-> Triggers(FALSE, FALSE, FALSE),
     matches |-> <<>>, results |-> {}, snippets |-> <<>>]

\* A session record: the session id, the two modes, the instant of the last
\* mode change (<<>> while absent) and updatedAt.  Clock values are offsets
\* from the instant the process started, so a recorded instant is never the
\* number 0 of the code's truthiness tests.
SessionEntry(sessionId) ==
    [sessionId |-> sessionId, saniMode |-> FALSE, labyrinthMode |-> FALSE,
     lastModeUpdateAt |-> <<>>, updatedAt |-> 0]

\* the state the process starts in, `call` being what `last` holds
InitWith(call) ==
    /\ files = (OutsideFile :> RawContent("secret"))
                 @@ (ElsewhereFile :> RawContent("source"))
    /\ dirs = Ancestors(WorkspaceDir)
    /\ now = 0
    /\ env = "unset"
    /\ store = (SessionKey :> SessionEntry("sani-session"))
                 @@ (NoIdKey :> SessionEntry(""))
    /\ last = call
    /\ calls = [i \in Slots |-> IdleCall]

Init == InitWith(NoCall)

\* the model's caps: the number of files under memory/ and of blocks in a file
WithinBounds(fs, maxFiles) ==
    /\ Cardinality(MemoryFiles(fs)) <= maxFiles
    /\ \A p \in DOMAIN fs : Len(fs[p]) <= MaxBlocks

Completed(op, req, out) ==
    /\ files' = out.files
    /\ dirs' = out.dirs
    /\ last' = [op |-> op, req |-> req, result |-> out.err, path |-> out.path,
                audit |-> out.audit, auditPath |-> out.auditPath,
                flags |-> NoCall.flags, triggers |-> NoCall.triggers,
                matches |-> NoCall.matches, results |-> NoCall.results,
                snippets |-> NoCall.snippets]
    /\ UNCHANGED <<now, env, store, calls>>

\* new Date() moves on
Tick ==
    /\ now < MaxTime
    /\ now' = now + 1
    /\ UNCHANGED <<files, dirs, env, store, last, calls>>

\* the process is started with SANI_VAULT_SEALING_ENABLED set to value
SetRuntimeToggle(value) ==
    /\ env # value
    /\ env' = value
    /\ UNCHANGED <<files, dirs, now, store, last, calls>>

ThreadbornWrite(req, io, maxFiles) ==
    \E out \in {threadbornWriteExecute(files, dirs, now, io, req)} :
       WithinBounds(out.files, maxFiles) /\ Completed("threadborn_write", req, out)

BridgePromote(req, io, maxFiles) ==
    \E out \in {bridgePromoteExecute(files, dirs, now, io, store, req)} :
       WithinBounds(out.files, maxFiles) /\ Completed("bridge_promote", req, out)

VaultSeal(req, io, maxFiles) ==
    \E out \in {vaultSealExecute(files, dirs, now, io, env, store, req)} :
       WithinBounds(out.files, maxFiles) /\ Completed("vault_seal", req, out)

LabyrinthSnapshot(req, io, maxFiles) ==
    \E out \in {labyrinthSnapshotExecute(files, dirs, now, io, req)} :
       WithinBounds(out.files, maxFiles) /\ Completed("labyrinth_snapshot", req, out)

Next ==
    \/ Tick
    \/ \E value \in {"unset", "true"} : SetRuntimeToggle(value)
    \/ \E req \in WriteRequests, io \in NoFault : ThreadbornWrite(req, io, MaxFiles)
    \/ \E req \in LifecyclePromotes(files), io \in NoFault :
           BridgePromote(req, io, MaxFiles)
    \/ \E req \in LifecycleSeals(files), io \in IoOutcomes : VaultSeal(req, io, MaxFiles)
    \/ \E req \in WriteRequests, io \in NoFault : LabyrinthSnapshot(req, io, MaxFiles)

Spec == Init /\ [][Next]_vars

\* ------------------------------------------------------------ sealing gate
\* The gate under every runtime toggle and configuration flag: vault_seal in
\* seal and append mode, for sources inside and outside the allowed tiers.
EnvValues == {"unset", "true", "false"}

GateCallers ==
    {Caller(config, SessionKey, "spoofed-session", "spoofed-trigger") :
        config \in {"none", "flagUnset", "flagTrue", "flagFalse"}}

GateSeals(fs) ==
    {SealCall(FirstNote, c) : c \in GateCallers}
    \cup {SealCall(EscapingPath, BaseCaller)}
    \cup {AppendCall(FirstNote, RelOf(tg)) : tg \in VaultFiles(fs)}

NextGate ==
    \/ \E value \in EnvValues : SetRuntimeToggle(value)
    \/ \E req \in WriteRequests, io \in NoFault : ThreadbornWrite(req, io, MaxGateFiles)
    \/ \E req \in GateSeals(files), io \in IoOutcomes : VaultSeal(req, io, MaxGateFiles)

SpecGate == Init /\ [][NextGate]_vars

\* ------------------------------------------------------ colliding file names
\* Calls that land on the same file name: the clock stands still, so every
\* denial entry and every Vault entry of the same title competes for one name
\* and its four suffixed variants.
OtherCaller == Caller("flagUnset", SessionKey, "other-session", "OTHER")

CollisionSeals ==
    {SealCall(FirstNote, BaseCaller),
     ToolRequest(FirstNote, <<>>, "true", MissingTargetPath, OtherCaller)}

NextCollision ==
    \/ \E value \in {"unset", "true"} : SetRuntimeToggle(value)
    \/ \E req \in WriteRequests, io \in NoFault :
           ThreadbornWrite(req, io, MaxCollisionFiles)
    \/ \E req \in CollisionSeals, io \in IoOutcomes :
           VaultSeal(req, io, MaxCollisionFiles)

SpecCollision == Init /\ [][NextCollision]_vars

\* ------------------------------------------------------- provenance chain
\* write, promote and seal whatever lies in the allowed tiers
ChainSeals(fs) == {SealCall(RelOf(p), BaseCaller) : p \in AllowedFiles(fs)}

NextChain ==
    \/ \E value \in {"unset", "true"} : SetRuntimeToggle(value)
    \/ \E req \in WriteRequests, io \in NoFault : ThreadbornWrite(req, io, MaxChainFiles)
    \/ \E req \in LifecyclePromotes(files), io \in NoFault :
           BridgePromote(req, io, MaxChainFiles)
    \/ \E req \in ChainSeals(files), io \in NoFault : VaultSeal(req, io, MaxChainFiles)

SpecChain == Init /\ [][NextChain]_vars

\* ----------------------------------------------------------------- sandbox
\* Sources and append targets inside and outside the allowed tiers, the Vault
\* and the workspace.
SandboxSources(fs) ==
    {RelOf(p) : p \in VaultFiles(fs)}
        \cup {FirstNote, EscapingPath, RootPath, ElsewherePath, TierDirPath}

SandboxTargets(fs) ==
    {RelOf(p) : p \in VaultFiles(fs)} \cup {EscapingPath, ElsewherePath}

SandboxSeals(fs) ==
    {SealCall(src, BaseCaller) : src \in SandboxSources(fs)}
    \cup {AppendCall(FirstNote, tg) : tg \in SandboxTargets(fs)}
    \cup {AppendCall(EscapingPath, RelOf(tg)) : tg \in VaultFiles(fs)}

SandboxPromotes(fs) == {PromoteCall(src, BaseCaller) : src \in SandboxSources(fs)}

NextSandbox ==
    \/ \E value \in {"unset", "true"} : SetRuntimeToggle(value)
    \/ \E req \in WriteRequests, io \in NoFault :
           ThreadbornWrite(req, io, MaxSandboxFiles)
    \/ \E req \in WriteRequests, io \in NoFault :
           LabyrinthSnapshot(req, io, MaxSandboxFiles)
    \/ \E req \in SandboxPromotes(files), io \in NoFault :
           BridgePromote(req, io, MaxSandboxFiles)
    \/ \E req \in SandboxSeals(files), io \in NoFault :
           VaultSeal(req, io, MaxSandboxFiles)

SpecSandbox == Init /\ [][NextSandbox]_vars

\* ------------------------------------------------------------- properties
IsPrefix(a, b) == Len(a) <= Len(b) /\ SubSeq(b, 1, Len(a)) = a

ResolvedTarget(req) == resolveWorkspacePath(WorkspaceDir, req.target).path

IsCall(op) == last'.op = op /\ now' = now /\ env' = env

SameVault ==
    /\ VaultFiles(files') = VaultFiles(files)
    /\ \A p \in VaultFiles(files) : files'[p] = files[p]

\* C2 - while Vault sealing is disabled, every vault_seal call, in seal or in
\* append mode and whatever its source, title and target, ends in
\* SealingDisabled, creates no file under memory/Vault and leaves every file
\* under memory/Vault as it was.
DisabledSealKeepsVault ==
    [][(IsCall("vault_seal") /\ ~resolveSaniVaultSealingEnabled(last'.req.config, env))
          => (last'.result = "SealingDisabled" /\ SameVault)]_vars

\* sealing is disabled and an append aimed at an existing Vault file was refused
DisabledSealKeepsVaultWitness ==
    /\ ~resolveSaniVaultSealingEnabled(last.req.config, env)
    /\ last.op = "vault_seal"
    /\ last.result = "SealingDisabled"
    /\ last.req.append = "true"
    /\ ResolvedTarget(last.req) \in VaultFiles(files)

NewFiles == DOMAIN files' \ DOMAIN files
OldFilesKept == \A p \in DOMAIN files : p \in DOMAIN files' /\ files'[p] = files[p]

SealingDisabledFor(req) == ~resolveSaniVaultSealingEnabled(req.config, env)

\* the source names an existing file under memory/ThreadBorn
ValidThreadBornSource(req, fs) ==
    LET r == resolveWorkspacePath(WorkspaceDir, req.source)
    IN /\ r.err = "none"
       /\ isPathWithin(resolveMemoryDir(WorkspaceDir, THREADBORN_DIR), r.path)
       /\ r.path \in DOMAIN fs

\* the content of a denial audit entry for the request
IsDenialEntry(content, req) ==
    /\ Len(content) = 1
    /\ content[1].title = VaultSealDeniedTitle
    /\ content[1].tags = <<"vault:denied", "admin-denied">>
    /\ content[1].metadata.memory_type = "ThreadBorn"
    /\ content[1].metadata.source_session_id = req.source_session_id
    /\ content[1].metadata.source_trigger = req.source_trigger
    /\ content[1].denied =
          [source |-> req.source, title |-> req.title, append |-> req.append,
           target |-> req.target, source_session_id |-> req.source_session_id,
           source_trigger |-> req.source_trigger]

OneDenialEntryWritten(req) ==
    \E p \in NewFiles :
        /\ NewFiles = {p}
        /\ isPathWithin(resolveMemoryDir(WorkspaceDir, THREADBORN_DIR), p)
        /\ IsDenialEntry(files'[p], req)

SealRequest(req, fs, st) ==
    /\ req.append # "true"
    /\ req.target = NoPath
    /\ ValidThreadBornSource(req, fs)
    /\ resolveToolProvenance(st, req.config, req.sessionKey, "vault_seal").err = "none"

OneVaultEntryWritten ==
    \E p \in NewFiles :
        /\ NewFiles = {p}
        /\ last'.path = p
        /\ isPathWithin(resolveVaultDir(WorkspaceDir), p)
        /\ Len(files'[p]) = 1
        /\ files'[p][1].metadata.memory_type = "Vault"
        /\ files'[p][1].metadata.sealed = "true"

EnabledSealSucceeds ==
    [][(IsCall("vault_seal") /\ ~SealingDisabledFor(last'.req)
            /\ SealRequest(last'.req, files, store))
          => (/\ last'.result = "none"
              /\ OldFilesKept
              /\ OneVaultEntryWritten
              /\ last'.audit = "skipped")]_vars

\* C4 - with sealing enabled such a request succeeds unless creating the file
\* fails (an I/O error, or AllocationExhausted when the name and its four
\* suffixed variants are taken); when it succeeds exactly one file is new, under
\* memory/Vault, with memory_type=Vault and sealed=true; when it fails no file
\* is written; in both cases no other file changes and no denial audit entry is
\* attempted.
EnabledSealSucceedsIfItCan ==
    [][(IsCall("vault_seal") /\ ~SealingDisabledFor(last'.req)
            /\ SealRequest(last'.req, files, store))
          => (/\ OldFilesKept
              /\ last'.audit = "skipped"
              /\ last'.result \in {"none", "IOError", "AllocationExhausted"}
              /\ IF last'.result = "none" THEN OneVaultEntryWritten ELSE NewFiles = {}
              /\ last'.result = "AllocationExhausted"
                    => Cardinality(VaultFiles(files)) >= MaxAttempts)]_vars

\* an enabled seal of an existing ThreadBorn note has created its Vault entry
\* beside an earlier one of the same name
EnabledSealWitness ==
    /\ last.op = "vault_seal"
    /\ last.result = "none"
    /\ resolveSaniVaultSealingEnabled(last.req.config, env)
    /\ SealRequest(last.req, files, store)
    /\ last.path \in VaultFiles(files)
    /\ Cardinality(VaultFiles(files)) >= 2

\* C6 - when sealing is disabled and the denial audit write fails (I/O error
\* or no free file name), the vault_seal caller still receives
\* SealingDisabled.
AuditFailureKeepsSealingDisabled ==
    [][(IsCall("vault_seal") /\ SealingDisabledFor(last'.req)
            /\ last'.audit \in {"IOError", "AllocationExhausted"})
          => last'.result = "SealingDisabled"]_vars

\* the audit entry found all five names taken and the caller got SealingDisabled
AuditFailureWitness ==
    /\ last.op = "vault_seal"
    /\ last.audit = "AllocationExhausted"
    /\ last.result = "SealingDisabled"
    /\ ~resolveSaniVaultSealingEnabled(last.req.config, env)

\* the decision the precedence runtime toggle > configuration flag > disabled gives
PrecedenceEnabled(config, envValue) ==
    IF envValue # "unset" THEN isTruthyEnvValue(envValue) ELSE config = "flagTrue"

\* C5 - the sealing decision follows runtime toggle > configuration flag >
\* disabled: a vault_seal call is refused with SealingDisabled exactly when the
\* toggle, if set, is not truthy, or, if the toggle is not set, the
\* configuration flag is not true.
SealingFollowsPrecedence ==
    [][IsCall("vault_seal")
          => ((last'.result = "SealingDisabled")
                 <=> ~PrecedenceEnabled(last'.req.config, env))]_vars

\* the configuration flag is true, the toggle is not set, and the seal of an
\* existing ThreadBorn note was refused
ConfigFlagIgnoredWitness ==
    /\ env = "unset"
    /\ last.op = "vault_seal"
    /\ last.req.config = "flagTrue"
    /\ ValidThreadBornSource(last.req, files)
    /\ last.result = "SealingDisabled"

\* the relative path has a ".." segment and resolves outside the workspace
\* root or to the root itself
Escapes(relPath) ==
    /\ relPath # NoPath
    /\ \E i \in 1..Len(relPath) : IsParentSeg(relPath[i])
    /\ resolveWorkspacePath(WorkspaceDir, relPath).err = "PathEscape"

\* the call reads its source, or appends to its target, through the path
TakesEscapingPath(op, req) ==
    \/ op \in {"bridge_promote", "vault_seal"} /\ Escapes(req.source)
    \/ op = "vault_seal" /\ req.append = "true" /\ Escapes(req.target)

\* C7 - sandbox invariant: a bridge_promote or vault_seal call whose source,
\* or whose append target, has ".." segments and resolves outside the
\* workspace root (or to the root) fails with PathEscape and changes no file
\* and no directory, whether sealing is enabled or not.
EscapingPathFailsWithoutMutation ==
    [][((IsCall("bridge_promote") \/ IsCall("vault_seal"))
            /\ TakesEscapingPath(last'.op, last'.req))
          => (last'.result = "PathEscape" /\ files' = files /\ dirs' = dirs)]_vars

\* a vault_seal call whose source escapes the workspace has written a file
EscapingSourceAuditedWitness ==
    /\ last.op = "vault_seal"
    /\ Escapes(last.req.source)
    /\ last.result = "SealingDisabled"
    /\ last.auditPath \in DOMAIN files
    /\ files[last.auditPath][1].denied.source = last.req.source

\* the source resolves to a strict descendant of memory/ThreadBorn,
\* memory/BridgeThread or memory/Labyrinth
IsAllowedSource(relPath) ==
    LET r == resolveWorkspacePath(WorkspaceDir, relPath)
    IN /\ r.err = "none"
       /\ \E d \in MEMORY_SOURCE_DIRS :
              isPathWithin(resolveMemoryDir(WorkspaceDir, d), r.path)

\* the source resolves inside the workspace, outside the three tiers
IsDisallowedSource(relPath) ==
    /\ resolveWorkspacePath(WorkspaceDir, relPath).err = "none"
    /\ ~IsAllowedSource(relPath)

\* C8 - bridge_promote and vault_seal (seal and append mode) succeed only for
\* a source that resolves to a strict descendant of memory/ThreadBorn,
\* memory/BridgeThread or memory/Labyrinth; for a source inside memory/Vault,
\* one of the three directories itself, or elsewhere in the workspace the call
\* is rejected and no file is created or modified.
DisallowedSourceRejectedWithoutChange ==
    [][(IsCall("bridge_promote") \/ IsCall("vault_seal"))
          => (/\ last'.result = "none" => IsAllowedSource(last'.req.source)
              /\ IsDisallowedSource(last'.req.source)
                    => (last'.result # "none" /\ files' = files))]_vars

\* a vault_seal call whose source lies in memory/Vault has created a file
VaultSourceAuditedWitness ==
    /\ last.op = "vault_seal"
    /\ IsDisallowedSource(last.req.source)
    /\ resolveWorkspacePath(WorkspaceDir, last.req.source).path \in VaultFiles(files)
    /\ last.result = "SealingDisabled"
    /\ last.auditPath \in DOMAIN files

\* the file the source of the request names, and the header of its entry
SourceFile(req) == resolveWorkspacePath(WorkspaceDir, req.source).path
HeaderOf(fs, p) == parseFrontMatter(fs[p]).metadata

\* the BridgeThread entry was promoted from a ThreadBorn entry
PromotedFromThreadBorn(fs, p) ==
    /\ isPathWithin(resolveMemoryDir(WorkspaceDir, BRIDGETHREAD_DIR), p)
    /\ HeaderOf(fs, p).memory_type = "BridgeThread"
    /\ HeaderOf(fs, p).promoted_from_memory_type = "ThreadBorn"

\* C9 - provenance chain: the BridgeThread entry bridge_promote creates from a
\* ThreadBorn entry with id X has promoted_from_id = X; the Vault entry
\* vault_seal creates from that BridgeThread entry has sealed_from_id equal to
\* the BridgeThread entry's own id, which is not X, and
\* sealed_from_memory_type = BridgeThread.
ProvenanceChain ==
    [][/\ (/\ IsCall("bridge_promote") /\ last'.result = "none"
           /\ HeaderOf(files, SourceFile(last'.req)).memory_type = "ThreadBorn")
          => (/\ HeaderOf(files', last'.path).memory_type = "BridgeThread"
              /\ HeaderOf(files', last'.path).promoted_from_id
                    = HeaderOf(files, SourceFile(last'.req)).id
              /\ HeaderOf(files', last'.path).promoted_from_id # NoPath)
       /\ (/\ IsCall("vault_seal") /\ last'.result = "none"
           /\ last'.req.append # "true"
           /\ PromotedFromThreadBorn(files, SourceFile(last'.req)))
          => (/\ HeaderOf(files', last'.path).memory_type = "Vault"
              /\ HeaderOf(files', last'.path).sealed_from_id
                    = HeaderOf(files, SourceFile(last'.req)).id
              /\ HeaderOf(files', last'.path).sealed_from_id
                    # HeaderOf(files, SourceFile(last'.req)).promoted_from_id
              /\ HeaderOf(files', last'.path).sealed_from_memory_type
                    = "BridgeThread")]_vars

\* a note was promoted and the BridgeThread entry sealed: the Vault entry links
\* to the BridgeThread entry, which links to the note
ProvenanceChainWitness ==
    /\ last.op = "vault_seal"
    /\ last.result = "none"
    /\ last.path \in VaultFiles(files)
    /\ \E b \in DOMAIN files :
           /\ PromotedFromThreadBorn(files, b)
           /\ HeaderOf(files, last.path).sealed_from_id = HeaderOf(files, b).id
           /\ \E x \in DOMAIN files :
                  /\ HeaderOf(files, x).memory_type = "ThreadBorn"
                  /\ HeaderOf(files, b).promoted_from_id = HeaderOf(files, x).id

\* the same call with other source_session_id / source_trigger arguments
WithOtherProvenance(req) ==
    [req EXCEPT !.source_session_id = "other-session", !.source_trigger = "OTHER"]

\* source_session_id and source_trigger in the headers of the files new in after
RecordedProvenance(before, after) ==
    {<<HeaderOf(after, p).source_session_id, HeaderOf(after, p).source_trigger>> :
        p \in DOMAIN after \ DOMAIN before}

\* C10 - the source_session_id and source_trigger recorded in an entry written
\* by vault_seal or bridge_promote are the session store's sessionId for the
\* tool's session key and the tool name in upper case, and the same call with
\* other source_session_id / source_trigger arguments records the same values.
RecordedProvenanceIgnoresArguments ==
    [][(IsCall("bridge_promote") \/ IsCall("vault_seal"))
          => LET other == WithOtherProvenance(last'.req)
                 again == IF last'.op = "vault_seal"
                          THEN vaultSealExecute(files, dirs, now, "ok", env, store, other)
                          ELSE bridgePromoteExecute(files, dirs, now, "ok", store, other)
             IN /\ RecordedProvenance(files, files')
                      = RecordedProvenance(files, again.files)
                /\ RecordedProvenance(files, files')
                      \subseteq {<<store[last'.req.sessionKey].sessionId,
                                   IF last'.op = "vault_seal" THEN "VAULT_SEAL"
                                   ELSE "BRIDGE_PROMOTE">>}]_vars

\* the denial entry vault_seal wrote carries the session id the caller supplied
SpoofedProvenanceRecordedWitness ==
    /\ last.op = "vault_seal"
    /\ last.auditPath \in DOMAIN files
    /\ HeaderOf(files, last.auditPath).source_session_id = last.req.source_session_id
    /\ last.req.source_session_id # store[last.req.sessionKey].sessionId

\* ------------------------------------------------------- tool provenance
\* bridge_promote and vault_seal created with and without a configuration,
\* for session keys with a record, without one, with a record that has no
\* sessionId, blank and absent; sources inside and outside the allowed tiers.
ProvenanceCallers ==
    {Caller("none", SessionKey, "spoofed-session", "spoofed-trigger")}
        \cup {Caller("flagUnset", key, "spoofed-session", "spoofed-trigger") :
                 key \in {SessionKey, NoIdKey, UnknownKey, " ", ""}}

ProvenanceSources == {FirstNote, ElsewherePath}

ProvenanceSeals(fs) ==
    {SealCall(src, c) : src \in ProvenanceSources, c \in ProvenanceCallers}
    \cup {ToolRequest(FirstNote, VaultEntryTitle, "true", RelOf(tg), c) :
             tg \in VaultFiles(fs), c \in ProvenanceCallers}

ProvenancePromotes ==
    {PromoteCall(src, c) : src \in ProvenanceSources, c \in ProvenanceCallers}

NextProvenance ==
    \/ \E value \in {"unset", "true"} : SetRuntimeToggle(value)
    \/ \E req \in WriteRequests, io \in NoFault :
           ThreadbornWrite(req, io, MaxProvenanceFiles)
    \/ \E req \in ProvenancePromotes, io \in NoFault :
           BridgePromote(req, io, MaxProvenanceFiles)
    \/ \E req \in ProvenanceSeals(files), io \in NoFault :
           VaultSeal(req, io, MaxProvenanceFiles)

SpecProvenance == Init /\ [][NextProvenance]_vars

\* the originating session of the call cannot be established
SessionUnresolved(req, st) ==
    \/ req.config = "none"
    \/ TrimKey(req.sessionKey) = ""
    \/ TrimKey(req.sessionKey) \notin DOMAIN st
    \/ st[TrimKey(req.sessionKey)].sessionId = ""

\* a bridge_promote call, or a vault_seal call with sealing enabled
IsProvenancedCall ==
    \/ IsCall("bridge_promote")
    \/ IsCall("vault_seal") /\ ~SealingDisabledFor(last'.req)

\* no file under memory/BridgeThread or memory/Vault is created or modified
SameBridgeAndVault ==
    LET governed(fs) ==
            VaultFiles(fs)
                \cup FilesIn(fs, resolveMemoryDir(WorkspaceDir, BRIDGETHREAD_DIR))
    IN /\ governed(files') = governed(files)
       /\ \A p \in governed(files) : files'[p] = files[p]

\* C11 as stated - a vault_seal (sealing enabled) or bridge_promote call for
\* which the originating session cannot be established (no configuration, no
\* session key, no session record with a sessionId) fails with
\* ProvenanceUnresolved and creates or modifies no file under
\* memory/BridgeThread or memory/Vault.
UnresolvedSessionFailsProvenance ==
    [][(IsProvenancedCall /\ SessionUnresolved(last'.req, store))
          => (last'.result = "ProvenanceUnresolved" /\ SameBridgeAndVault)]_vars

\* C11 - such a call creates or modifies no file under memory/BridgeThread or
\* memory/Vault and fails: with ProvenanceUnresolved when its source passes
\* the allowed-source check, which the tools make first, and with
\* DisallowedSource when it does not.
UnresolvedSessionFailsAfterSourceCheck ==
    [][(IsProvenancedCall /\ SessionUnresolved(last'.req, store))
          => (/\ SameBridgeAndVault
              /\ files' = files
              /\ last'.result = IF IsAllowedSource(last'.req.source)
                                THEN "ProvenanceUnresolved"
                                ELSE "DisallowedSource")]_vars

\* an enabled append to an existing Vault entry was refused because the
\* session record holds no sessionId
UnresolvedSessionWitness ==
    /\ last.op = "vault_seal"
    /\ resolveSaniVaultSealingEnabled(last.req.config, env)
    /\ last.req.sessionKey = NoIdKey
    /\ last.req.append = "true"
    /\ ResolvedTarget(last.req) \in VaultFiles(files)
    /\ last.result = "ProvenanceUnresolved"

\* ------------------------------------------------------------ file names
\* Notes and snapshots of one title written in the same and in successive
\* milliseconds.
NameRequests ==
    {Request(NoPath, NoteTitle, "unset", NoPath, "sani-session", "MANUAL", "flagUnset",
             SessionKey, Body(note, NoDenied), <<>>) : note \in {"note", "again"}}

NextNames ==
    \/ Tick
    \/ \E req \in NameRequests, io \in NoFault : ThreadbornWrite(req, io, MaxNameFiles)
    \/ \E req \in NameRequests, io \in NoFault : LabyrinthSnapshot(req, io, MaxNameFiles)

SpecNames == Init /\ [][NextNames]_vars

\* Date.prototype.toISOString renders milliseconds; a second has 1000 of them
MsPerSecond == 1000
SecondOf(t) == t \div MsPerSecond

ThreadBornFiles(fs) == FilesIn(fs, resolveMemoryDir(WorkspaceDir, THREADBORN_DIR))

\* the ThreadBorn entries of the title written in an instant of the set
EarlierEntries(fs, title, instants) ==
    {p \in ThreadBornFiles(fs) :
        fs[p][1].title = title /\ HeaderOf(fs, p).created_at \in instants}

\* base.md, base-2.md or base-3.md in memory/ThreadBorn, written out in full
NumberedName(base, n) ==
    Append(resolveMemoryDir(WorkspaceDir, THREADBORN_DIR),
           CASE n = 1 -> base \o <<".", "m", "d">>
             [] n = 2 -> base \o <<"-", "2", ".", "m", "d">>
             [] n = 3 -> base \o <<"-", "3", ".", "m", "d">>)

\* the call creates the n-th file of the base of the earlier entries (of the
\* base of its own timestamp and title when there is none), and the earlier
\* entries are base.md .. base-(n-1).md
WritesNumbered(earlier) ==
    LET n == Cardinality(earlier) + 1
        own == timestampSlug(now) \o <<"-">> \o toSafeSlug(last'.req.title)
    IN n <= 3 =>
          \E base \in {own} \cup {SubSeq(Basename(p), 1, Len(Basename(p)) - 3) : p \in earlier} :
              /\ earlier = {NumberedName(base, i) : i \in 1..(n - 1)}
              /\ last'.result = "none"
              /\ last'.path = NumberedName(base, n)
              /\ NewFiles = {last'.path}
              /\ OldFilesKept

\* C12 as stated - a threadborn_write of a title of which one entry was
\* written earlier in the same second creates base-2.md beside that entry's
\* base.md, and with two such entries base-3.md (base = timestamp slug +
\* slugified title).
SameSecondWritesAreNumbered ==
    [][IsCall("threadborn_write")
          => WritesNumbered(EarlierEntries(files, Trim(last'.req.title),
                 {t \in Clock : SecondOf(t) = SecondOf(now)}))]_vars

\* C12 - a threadborn_write of a title of which one entry was written earlier
\* in the same millisecond (the resolution of the timestamp slug) creates
\* base-2.md beside that entry's base.md, and with two such entries base-3.md;
\* the files are distinct and the earlier ones unchanged.
SameInstantWritesAreNumbered ==
    [][IsCall("threadborn_write")
          => WritesNumbered(EarlierEntries(files, Trim(last'.req.title), {now}))]_vars

\* three notes of one title and one millisecond: base.md, base-2.md, base-3.md
SameInstantWitness ==
    LET base == timestampSlug(now) \o <<"-">> \o toSafeSlug(NoteTitle)
    IN /\ last.op = "threadborn_write"
       /\ last.path = NumberedName(base, 3)
       /\ {NumberedName(base, i) : i \in 1..3} \subseteq DOMAIN files
       /\ now > 0

\* ------------------------------------------------- concurrent store writes
\* randomUUID(): an id no entry written or in flight carries
UuidOf(n) == <<<<ToString(n)>>>>

UuidsInUse(fs, cs) ==
    {HeaderOf(fs, p).id : p \in DOMAIN fs}
        \cup {parseFrontMatter(cs[i].content).metadata.id : i \in DOMAIN cs}

randomUUID(fs, cs) ==
    UuidOf(CHOOSE n \in 1..(Cardinality(DOMAIN fs) + Cardinality(DOMAIN cs) + 1) :
               /\ UuidOf(n) \notin UuidsInUse(fs, cs)
               /\ \A m \in 1..(n - 1) : UuidOf(m) \in UuidsInUse(fs, cs))

\* the call of writeUniqueFile writeThreadbornEntry ends in, up to its first await
ThreadbornCall(fs, cs, t, req) ==
    LET title == IF Trim(req.title) = <<>> THEN ThreadBornEntryTitle ELSE Trim(req.title)
        metadata == createMetadata(randomUUID(fs, cs), t, req.source_session_id,
                                   req.source_trigger, "ThreadBorn", FALSE,
                                   NoProvenance, NoProvenance)
    IN [status |-> "ensureDir",
        dir |-> resolveMemoryDir(WorkspaceDir, THREADBORN_DIR),
        filenameBase |-> timestampSlug(t) \o <<"-">> \o toSafeSlug(title),
        content |-> <<Block("entry", TRUE, buildFrontMatter(metadata), title, NoPath, t,
                            CleanTags(req.tags), req.body.note, req.body.denied)>>,
        allowSuffix |-> TRUE, attempt |-> 0, path |-> NoPath, err |-> "none"]

\* allowSuffix is left at its default (true)
SnapshotCallSuffixed(fs, cs, t, req) ==
    LET title == IF Trim(req.title) = <<>> THEN LabyrinthSnapshotTitle ELSE Trim(req.title)
        metadata == createMetadata(randomUUID(fs, cs), t, req.source_session_id,
                                   req.source_trigger, "Labyrinth", FALSE,
                                   NoProvenance, NoProvenance)
    IN [status |-> "ensureDir",
        dir |-> resolveMemoryDir(WorkspaceDir, LABYRINTH_DIR),
        filenameBase |-> timestampSlug(t) \o <<"-">> \o toSafeSlug(title),
        content |-> <<Block("entry", TRUE, buildFrontMatter(metadata), title, NoPath, t,
                            <<>>, req.body.note, req.body.denied)>>,
        allowSuffix |-> TRUE, attempt |-> 0, path |-> NoPath, err |-> "none"]

\* the call of writeUniqueFile writeLabyrinthSnapshot ends in (allowSuffix: false)
SnapshotCall(fs, cs, t, req) ==
    LET title == IF Trim(req.title) = <<>> THEN LabyrinthSnapshotTitle ELSE Trim(req.title)
        metadata == createMetadata(randomUUID(fs, cs), t, req.source_session_id,
                                   req.source_trigger, "Labyrinth", FALSE,
                                   NoProvenance, NoProvenance)
    IN [status |-> "ensureDir",
        dir |-> resolveMemoryDir(WorkspaceDir, LABYRINTH_DIR),
        filenameBase |-> timestampSlug(t) \o <<"-">> \o toSafeSlug(title),
        content |-> <<Block("entry", TRUE, buildFrontMatter(metadata), title, NoPath, t,
                            <<>>, req.body.note, req.body.denied)>>,
        allowSuffix |-> FALSE, attempt |-> 0, path |-> NoPath, err |-> "none"]

InFlight(c) == c.status \in {"ensureDir", "writeFile"}

\* writeThreadbornEntry is called while other writes are in flight
CallWriteThreadbornEntry(i, req) ==
    /\ calls[i].status = "idle"
    /\ calls' = [calls EXCEPT ![i] = ThreadbornCall(files, calls, now, req)]
    /\ UNCHANGED <<files, dirs, now, env, store, last>>

\* writeLabyrinthSnapshot is called while other writes are in flight
CallWriteLabyrinthSnapshot(i, req) ==
    /\ calls[i].status = "idle"
    /\ calls' = [calls EXCEPT ![i] = SnapshotCall(files, calls, now, req)]
    /\ UNCHANGED <<files, dirs, now, env, store, last>>

\* await ensureDir(params.dir)
AwaitEnsureDir(i) ==
    /\ calls[i].status = "ensureDir"
    /\ dirs' = ensureDir(dirs, calls[i].dir)
    /\ calls' = [calls EXCEPT ![i].status = "writeFile"]
    /\ UNCHANGED <<files, now, env, store, last>>

\* the call in slot i ends: the slot keeps what was asked and the error, and
\* `last` holds the outcome
Settled(i, err, path) ==
    /\ calls' = [calls EXCEPT ![i] = [IdleCall EXCEPT
                     !.status = "settled", !.dir = calls[i].dir,
                     !.filenameBase = calls[i].filenameBase,
                     !.allowSuffix = calls[i].allowSuffix, !.err = err]]
    /\ last' = [NoCall EXCEPT !.op = "writeUniqueFile", !.result = err, !.path = path]

\* flag "w": the file is written whether or not it exists
AwaitWriteFileOverwriting(i) ==
    LET c == calls[i]
        filePath == Append(c.dir, AttemptName(c.filenameBase, c.attempt))
    IN /\ c.status = "writeFile"
       /\ WithinBounds((filePath :> c.content) @@ files, MaxCallFiles)
       /\ files' = (filePath :> c.content) @@ files
       /\ Settled(i, "none", filePath)
       /\ UNCHANGED <<dirs, now, env, store>>

\* one turn of the loop: await fs.writeFile(filePath, content, {flag: "wx"}),
\* which creates the file or fails with EEXIST in one step of the file system;
\* after EEXIST the next attempt, after the last attempt the throw
AwaitWriteFile(i) ==
    LET c == calls[i]
        maxAttempts == IF c.allowSuffix THEN MaxAttempts ELSE 1
        filePath == Append(c.dir, AttemptName(c.filenameBase, c.attempt))
    IN /\ c.status = "writeFile"
       /\ IF ~Exists(files, dirs, filePath)
          THEN /\ WithinBounds((filePath :> c.content) @@ files, MaxCallFiles)
               /\ files' = (filePath :> c.content) @@ files
               /\ Settled(i, "none", filePath)
          ELSE /\ files' = files
               /\ IF c.attempt + 1 < maxAttempts
                  THEN /\ calls' = [calls EXCEPT ![i].attempt = c.attempt + 1]
                       /\ last' = last
                  ELSE Settled(i, "AllocationExhausted", NoPath)
       /\ UNCHANGED <<dirs, now, env, store>>

NextAllocator ==
    \/ \E req \in WriteRequests, io \in NoFault : ThreadbornWrite(req, io, MaxCallFiles)
    \/ \E i \in Slots, req \in WriteRequests : CallWriteThreadbornEntry(i, req)
    \/ \E i \in Slots, req \in WriteRequests : CallWriteLabyrinthSnapshot(i, req)
    \/ \E i \in Slots : AwaitEnsureDir(i)
    \/ \E i \in Slots : AwaitWriteFile(i)

SpecAllocator == Init /\ [][NextAllocator]_vars

\* the call in slot i ends in this step
Settles(i) == InFlight(calls[i]) /\ calls'[i].status = "settled"

\* base.md, base-2.md .. base-5.md in the call's directory, written out
SuffixedNames(c) ==
    {Append(c.dir, c.filenameBase \o sfx \o <<".", "m", "d">>) :
        sfx \in {<<>>, <<"-", "2">>, <<"-", "3">>, <<"-", "4">>, <<"-", "5">>}}

\* C13 - for any interleaving of concurrent writeUniqueFile calls with
\* suffixing allowed, no step overwrites, changes or removes an existing file;
\* a call that succeeds creates one file, with its own content, under a name
\* among base.md, base-2.md .. base-5.md that no file held (so the successful
\* calls of one directory and base return pairwise distinct names); a call
\* that fails has found all five names taken, fails with AllocationExhausted
\* on its fifth create attempt and creates or modifies no file.
ConcurrentCreatesNeverOverwrite ==
    [][/\ OldFilesKept
       /\ \A i \in Slots :
             (Settles(i) /\ calls[i].allowSuffix) =>
                IF last'.result = "none"
                THEN /\ last'.path \in SuffixedNames(calls[i])
                     /\ last'.path \notin DOMAIN files
                     /\ NewFiles = {last'.path}
                     /\ files'[last'.path] = calls[i].content
                ELSE /\ last'.result = "AllocationExhausted"
                     /\ SuffixedNames(calls[i]) \subseteq DOMAIN files
                     /\ calls[i].attempt + 1 = 5
                     /\ files' = files
       /\ \A i \in Slots :
             (InFlight(calls[i]) /\ ~Settles(i) /\ calls'[i] # calls[i])
                => files' = files]_vars

\* two calls were in flight together, four names were taken; the call that
\* began second created base-5.md and the one that began first found all
\* five names taken
ConcurrentCreatesWitness ==
    LET dir == resolveMemoryDir(WorkspaceDir, THREADBORN_DIR)
        base == timestampSlug(now) \o <<"-">> \o toSafeSlug(NoteTitle)
        fifth == Append(dir, base \o <<"-", "5", ".", "m", "d">>)
    IN /\ last.op = "writeUniqueFile"
       /\ last.result = "AllocationExhausted"
       /\ fifth \in DOMAIN files
       /\ HeaderOf(files, fifth).id = UuidOf(2)
       /\ UuidOf(1) \notin {HeaderOf(files, p).id : p \in DOMAIN files}

\* the directory of the snapshots and the one file name of a snapshot's base
SnapshotDir == resolveMemoryDir(WorkspaceDir, LABYRINTH_DIR)
SnapshotName(filenameBase) == Append(SnapshotDir, filenameBase \o <<".", "m", "d">>)

\* the snapshot calls of the base that have ended, and those that succeeded
SettledSnapshots(cs, filenameBase) ==
    {i \in DOMAIN cs : /\ cs[i].status = "settled"
                       /\ cs[i].dir = SnapshotDir
                       /\ cs[i].filenameBase = filenameBase}

\* the file was created by a call that ran interleaved with others
CreatedInFlight(fs, p) ==
    p \in DOMAIN fs /\ HeaderOf(fs, p).id \in {UuidOf(n) : n \in 1..(MaxCalls + 1)}

\* C14 - a Labyrinth snapshot write makes a single create attempt: when the
\* file of its base exists it fails (AllocationExhausted) and changes no file,
\* otherwise it creates exactly that file; no suffixed snapshot file (-2, -3,
\* ...) is ever created; of the concurrent snapshot writes of one base
\* exactly one succeeds.
SnapshotCollisionFailsOutright ==
    [][/\ \A i \in Slots :
             (Settles(i) /\ calls[i].dir = SnapshotDir) =>
                /\ calls[i].attempt = 0
                /\ IF SnapshotName(calls[i].filenameBase) \in DOMAIN files
                   THEN last'.result = "AllocationExhausted" /\ files' = files
                   ELSE /\ last'.result = "none"
                        /\ last'.path = SnapshotName(calls[i].filenameBase)
                        /\ NewFiles = {last'.path}
                        /\ files'[last'.path] = calls[i].content
       /\ OldFilesKept
       /\ \A p \in FilesIn(files', SnapshotDir) :
             p = SnapshotName(timestampSlug(HeaderOf(files', p).created_at)
                                 \o <<"-">> \o toSafeSlug(files'[p][1].title))
       /\ \A i \in Slots :
             LET base == calls'[i].filenameBase
                 ended == SettledSnapshots(calls', base)
                 succeeded == {j \in ended : calls'[j].err = "none"}
             IN i \in ended =>
                   /\ SnapshotName(base) \in DOMAIN files'
                   /\ Cardinality(succeeded)
                         = IF CreatedInFlight(files', SnapshotName(base)) THEN 1 ELSE 0]_vars

\* two snapshot writes of one base ran together: the one that began second
\* created the file, the other failed, and there is no suffixed file
SnapshotCollisionWitness ==
    LET base == timestampSlug(now) \o <<"-">> \o toSafeSlug(NoteTitle)
        ended == SettledSnapshots(calls, base)
    IN /\ Cardinality(ended) = 2
       /\ {calls[i].err : i \in ended} = {"none", "AllocationExhausted"}
       /\ HeaderOf(files, SnapshotName(base)).id = UuidOf(2)
       /\ FilesIn(files, SnapshotDir) = {SnapshotName(base)}

\* ------------------------------------------------------- trigger lines
Hey == <<"h","e","y">>
Sani == <<"s","a","n","i">>
Who == <<"w","h","o">>
Am == <<"a","m">>
Exit == <<"e","x","i","t">>
Mode == <<"m","o","d","e">>

\* The three line patterns, /^\s*<word><sep>+<word>...[.!?]*\s*$/i: the words
\* of the phrase and the class of the separators between them.
HEY_SANI_LINE == [words |-> <<Hey, Sani>>, sep |-> "spaceOrComma"]
WHO_AM_I_LINE == [words |-> <<Who, Am, <<"i">>>>, sep |-> "space"]
EXIT_SANI_LINE == [words |-> <<Exit, Sani, Mode>>, sep |-> "space"]

InLineClass(c, class) ==
    CASE class = "space" -> IsSpace(c)
      [] class = "spaceOrComma" -> IsSpace(c) \/ c = ","
      [] class = "punctuation" -> c \in {".", "!", "?"}

\* the rest of s after the longest run of the class at its start
RECURSIVE SkipClass(_, _)
SkipClass(s, class) ==
    IF s # <<>> /\ InLineClass(Head(s), class) THEN SkipClass(Tail(s), class) ELSE s

\* the i flag: the word is matched whatever the case of the line
StartsWithWord(s, word) ==
    Len(s) >= Len(word) /\ ToLower(SubSeq(s, 1, Len(word))) = word

\* the pattern from its k-th word to the end of the line
RECURSIVE MatchWords(_, _, _)
MatchWords(s, pattern, k) ==
    LET word == pattern.words[k]
        rest == SubSeq(s, Len(word) + 1, Len(s))
    IN /\ StartsWithWord(s, word)
       /\ IF k = Len(pattern.words)
          THEN SkipClass(SkipClass(rest, "punctuation"), "space") = <<>>
          ELSE /\ rest # <<>>
               /\ InLineClass(Head(rest), pattern.sep)
               /\ MatchWords(SkipClass(rest, pattern.sep), pattern, k + 1)

\* pattern.test(line)
TestLine(line, pattern) == MatchWords(SkipClass(line, "space"), pattern, 1)

\* the grave accent (U+0060), one character
Grave == "grave"
Backticks == <<Grave, Grave, Grave>>
Tildes == <<"~", "~", "~">>

\* CODE_FENCE_PATTERN.test(line)
IsFenceLine(line) ==
    LET s == SkipClass(line, "space")
    IN Len(s) >= 3 /\ SubSeq(s, 1, 3) \in {Backticks, Tildes}

\* text.split(/\r?\n/), `line` being the characters of the line being read
RECURSIVE SplitFrom(_, _)
SplitFrom(text, line) ==
    IF text = <<>> THEN <<line>>
    ELSE IF Head(text) = "\n" THEN <<line>> \o SplitFrom(Tail(text), <<>>)
    ELSE IF Head(text) = "\r" /\ Len(text) > 1 /\ text[2] = "\n"
         THEN <<line>> \o SplitFrom(Tail(Tail(text)), <<>>)
    ELSE SplitFrom(Tail(text), Append(line, Head(text)))

SplitLines(text) == SplitFrom(text, <<>>)

\* the loop of hasStandaloneTriggerLine over the lines not read yet
RECURSIVE ScanLines(_, _, _)
ScanLines(lines, inCodeBlock, pattern) ==
    IF lines = <<>> THEN FALSE
    ELSE LET line == Head(lines)
             trimmedStart == TrimStart(line)
         IN IF IsFenceLine(trimmedStart)
            THEN ScanLines(Tail(lines), ~inCodeBlock, pattern)
            ELSE IF inCodeBlock THEN ScanLines(Tail(lines), inCodeBlock, pattern)
            ELSE IF trimmedStart # <<>> /\ Head(trimmedStart) = ">"
                 THEN ScanLines(Tail(lines), inCodeBlock, pattern)
            ELSE IF TestLine(line, pattern) THEN TRUE
            ELSE ScanLines(Tail(lines), inCodeBlock, pattern)

\* every line is tested, fenced or not
hasStandaloneTriggerLineUnfenced(text, pattern) ==
    \E i \in DOMAIN SplitLines(text) : TestLine(SplitLines(text)[i], pattern)

hasStandaloneTriggerLine(text, pattern) ==
    ScanLines(SplitLines(text), FALSE, pattern)

matchesHeySaniTrigger(text) == hasStandaloneTriggerLine(text, HEY_SANI_LINE)
matchesWhoAmITrigger(text) == hasStandaloneTriggerLine(text, WHO_AM_I_LINE)
matchesExitSaniTrigger(text) == hasStandaloneTriggerLine(text, EXIT_SANI_LINE)

\* ---------------------------------------------------- injection patterns
\* Regular expressions are matched by the set of positions a match can end
\* at: a position is the index of the next character to read, and a pattern
\* is found in s when some start position leaves a non-empty set.
Positions(s) == 1..(Len(s) + 1)

\* \w
WordChars == Range(UpperChars) \cup Range(LowerChars) \cup Digits \cup {"_"}

\* the character classes of the patterns
InRegexClass(c, class) ==
    CASE class = "space" -> IsSpace(c)
      [] class = "hash" -> c = "#"
      [] class = "quote" -> c \in {"\"", "'"}
      [] class = "notQuote" -> c \notin {"\"", "'"}
      [] class = "notParenOrSpace" -> c # ")" /\ ~IsSpace(c)
      [] class = "any" -> TRUE

\* the length of the longest run of the class that starts at position i
RECURSIVE RunLength(_, _, _)
RunLength(s, i, class) ==
    IF i <= Len(s) /\ InRegexClass(s[i], class)
    THEN 1 + RunLength(s, i + 1, class) ELSE 0

\* the literal w under the i flag (w is in lower case)
Lit(s, from, w) ==
    {i + Len(w) : i \in {j \in from : /\ j + Len(w) - 1 <= Len(s)
                                      /\ \A k \in 1..Len(w) :
                                             ToLowerChar(s[j + k - 1]) = w[k]}}

\* class{lo,hi}; class* and class+ have hi = Len(s)
Rep(s, from, class, lo, hi) ==
    UNION {{i + n : n \in lo..(IF RunLength(s, i, class) < hi
                                THEN RunLength(s, i, class) ELSE hi)} : i \in from}

\* one of the literals
OneOf(s, from, ws) == UNION {Lit(s, from, w) : w \in ws}

\* \b
IsWordAt(s, i) == i \in 1..Len(s) /\ s[i] \in WordChars
WordBoundary(s, from) == {i \in from : IsWordAt(s, i - 1) # IsWordAt(s, i)}

\* ^ under the m flag
LineStarts(s) == {i \in Positions(s) : i = 1 \/ s[i - 1] \in {"\n", "\r"}}

\* word\s+word\s+...word
RECURSIVE Phrase(_, _, _)
Phrase(s, from, words) ==
    IF Len(words) = 1 THEN Lit(s, from, words[1])
    ELSE Phrase(s, Rep(s, Lit(s, from, words[1]), "space", 1, Len(s)), Tail(words))

OneOfPhrases(s, from, phrases) == UNION {Phrase(s, from, words) : words \in phrases}

\* /\{\s*"tool"\s*:\s*["'][^"']+["']/i
tool_override_syntax(s) ==
    LET key == Lit(s, Rep(s, Lit(s, Positions(s), <<"{">>), "space", 0, Len(s)), <<"\"","t","o","o","l","\"">>)
        colon == Lit(s, Rep(s, key, "space", 0, Len(s)), <<":">>)
        opened == Rep(s, Rep(s, colon, "space", 0, Len(s)), "quote", 1, 1)
    IN Rep(s, Rep(s, opened, "notQuote", 1, Len(s)), "quote", 1, 1)

\* /"tool"\s*:/i
tool_key_raw(s) ==
    Lit(s, Rep(s, Lit(s, Positions(s), <<"\"","t","o","o","l","\"">>), "space", 0, Len(s)), <<":">>)

\* /```(?:system|prompt|instructions?)\b[\s\S]*?```/i
markdown_system_block(s) ==
    LET label == OneOf(s, Lit(s, Positions(s), Backticks),
                       {<<"s","y","s","t","e","m">>, <<"p","r","o","m","p","t">>, <<"i","n","s","t","r","u","c","t","i","o","n">>, <<"i","n","s","t","r","u","c","t","i","o","n","s">>})
    IN Lit(s, Rep(s, WordBoundary(s, label), "any", 0, Len(s)), Backticks)

\* /(?:^|\n)\s{0,3}#{2,6}\s*system\s+prompt\b/im
system_prompt_header(s) ==
    LET start == LineStarts(s) \cup Lit(s, Positions(s), <<"\n">>)
        hashes == Rep(s, Rep(s, start, "space", 0, 3), "hash", 2, 6)
    IN WordBoundary(s, Phrase(s, Rep(s, hashes, "space", 0, Len(s)),
                              <<<<"s","y","s","t","e","m">>, <<"p","r","o","m","p","t">>>>))

\* /\b(system\s+prompt|override\s+system|ignore\s+system|replace\s+system|
\*    ignore\s+(?:all|any|previous)\s+instructions|
\*    disregard\s+(?:all|any|previous)\s+instructions|you\s+are\s+now|act\s+as)\b/i
system_prompt_override(s) ==
    WordBoundary(s, OneOfPhrases(s, WordBoundary(s, Positions(s)),
        {<<<<"s","y","s","t","e","m">>, <<"p","r","o","m","p","t">>>>, <<<<"o","v","e","r","r","i","d","e">>, <<"s","y","s","t","e","m">>>>,
         <<<<"i","g","n","o","r","e">>, <<"s","y","s","t","e","m">>>>, <<<<"r","e","p","l","a","c","e">>, <<"s","y","s","t","e","m">>>>,
         <<<<"y","o","u">>, <<"a","r","e">>, <<"n","o","w">>>>, <<<<"a","c","t">>, <<"a","s">>>>}
        \cup {<<verb, which, <<"i","n","s","t","r","u","c","t","i","o","n","s">>>> :
                  verb \in {<<"i","g","n","o","r","e">>, <<"d","i","s","r","e","g","a","r","d">>},
                  which \in {<<"a","l","l">>, <<"a","n","y">>, <<"p","r","e","v","i","o","u","s">>}}))

\* /\brun_tool\s*\(\s*name\s*=\s*[^)\s]+/i
tool_block_mimicry(s) ==
    LET called == Lit(s, Rep(s, Lit(s, WordBoundary(s, Positions(s)), <<"r","u","n","_","t","o","o","l">>),
                             "space", 0, Len(s)), <<"(">>)
        named == Lit(s, Rep(s, called, "space", 0, Len(s)), <<"n","a","m","e">>)
        equals == Lit(s, Rep(s, named, "space", 0, Len(s)), <<"=">>)
    IN Rep(s, Rep(s, equals, "space", 0, Len(s)), "notParenOrSpace", 1, Len(s))

\* /\b(memory\s+block|begin\s+memory|end\s+memory|threadborn)\b/i
fake_memory_block(s) ==
    WordBoundary(s, OneOfPhrases(s, WordBoundary(s, Positions(s)),
        {<<<<"m","e","m","o","r","y">>, <<"b","l","o","c","k">>>>, <<<<"b","e","g","i","n">>, <<"m","e","m","o","r","y">>>>,
         <<<<"e","n","d">>, <<"m","e","m","o","r","y">>>>, <<<<"t","h","r","e","a","d","b","o","r","n">>>>}))

\* /\b(openclaw(?:-mac)?\s+agent|threadborn_write|vault_query|bridge_promote|
\*    session_log_entry)\b/i
embedded_agent_command(s) ==
    WordBoundary(s, OneOfPhrases(s, WordBoundary(s, Positions(s)),
        {<<<<"o","p","e","n","c","l","a","w">>, <<"a","g","e","n","t">>>>, <<<<"o","p","e","n","c","l","a","w","-","m","a","c">>, <<"a","g","e","n","t">>>>,
         <<<<"t","h","r","e","a","d","b","o","r","n","_","w","r","i","t","e">>>>, <<<<"v","a","u","l","t","_","q","u","e","r","y">>>>, <<<<"b","r","i","d","g","e","_","p","r","o","m","o","t","e">>>>,
         <<<<"s","e","s","s","i","o","n","_","l","o","g","_","e","n","t","r","y">>>>}))

\* INJECTION_PATTERNS: the registry, in its order.  No pattern carries the g
\* or the y flag, so test() neither reads nor moves a lastIndex.
INJECTION_PATTERNS ==
    <<[id |-> "tool_override_syntax", label |-> "JSON tool call payload", scope |-> "all"],
      [id |-> "tool_key_raw", label |-> "Raw tool key", scope |-> "all"],
      [id |-> "markdown_system_block", label |-> "Markdown system prompt block",
       scope |-> "all"],
      [id |-> "system_prompt_header", label |-> "Manual system prompt header",
       scope |-> "all"],
      [id |-> "system_prompt_override", label |-> "System prompt override attempts",
       scope |-> "all"],
      [id |-> "tool_block_mimicry", label |-> "Tool block mimicry", scope |-> "all"],
      [id |-> "fake_memory_block", label |-> "Fake memory block", scope |-> "all"],
      [id |-> "embedded_agent_command",
       label |-> "Embedded agent commands in non-agent channels",
       scope |-> "non_agent_channel"]>>

\* pattern.regex.test(content)
RegexTest(id, content) ==
    CASE id = "tool_override_syntax" -> tool_override_syntax(content) # {}
      [] id = "tool_key_raw" -> tool_key_raw(content) # {}
      [] id = "markdown_system_block" -> markdown_system_block(content) # {}
      [] id = "system_prompt_header" -> system_prompt_header(content) # {}
      [] id = "system_prompt_override" -> system_prompt_override(content) # {}
      [] id = "tool_block_mimicry" -> tool_block_mimicry(content) # {}
      [] id = "fake_memory_block" -> fake_memory_block(content) # {}
      [] id = "embedded_agent_command" -> embedded_agent_command(content) # {}

\* utils/message-channel: the channel the gateway's own clients talk over
INTERNAL_MESSAGE_CHANNEL == "webchat"
isInternalMessageChannel(channel) == channel = INTERNAL_MESSAGE_CHANNEL

\* an InjectionMatch (the pattern source is fixed by the id)
InjectionMatch(pattern) == [id |-> pattern.id, label |-> pattern.label]

MatchesOf(patterns) == [i \in DOMAIN patterns |-> InjectionMatch(patterns[i])]

\* the scope of a pattern is not looked at
detectInjectionPatternsUnscoped(content, channel) ==
    LET Found(pattern) == RegexTest(pattern.id, content)
    IN MatchesOf(SelectSeq(INJECTION_PATTERNS, Found))

\* detectInjectionPatterns; channel is context.channel ("" when absent)
detectInjectionPatterns(content, channel) ==
    LET trimmed == TrimKey(channel)
        isNonAgentChannel ==
            IF trimmed # "" THEN ~isInternalMessageChannel(trimmed) ELSE FALSE
        Found(pattern) ==
            /\ ~(pattern.scope = "non_agent_channel" /\ ~isNonAgentChannel)
            /\ RegexTest(pattern.id, content)
    IN MatchesOf(SelectSeq(INJECTION_PATTERNS, Found))

\* ------------------------------------------- session mode state machine
MinuteMs == 60000
HourMs == 3600000
DayMs == 86400000
DEFAULT_SANI_MODE_TTL_MINUTES == 720

MathMax(a, b) == IF a >= b THEN a ELSE b

\* the TTL is the configured one with the minimum of one minute dropped
resolveSaniModeTtlMsUnclamped(raw) ==
    IF raw # <<>> THEN raw[1] * MinuteMs ELSE DEFAULT_SANI_MODE_TTL_MINUTES * MinuteMs

\* resolveSaniModeTtlMs: the TTL in milliseconds, null being the value 0
\* (both fail the test `ttlMs &&`)
resolveSaniModeTtlMs(raw) ==
    IF raw # <<>>
    THEN IF raw[1] <= 0 THEN 0 ELSE MathMax(1, raw[1]) * MinuteMs
    ELSE DEFAULT_SANI_MODE_TTL_MINUTES * MinuteMs

\* updateSessionStoreEntry (config/sessions/store.js): the fields the update
\* returns replace those of the session's record
updateSessionStoreEntry(st, sessionKey, patch) ==
    [st EXCEPT ![sessionKey] = patch @@ @]

\* lastModeUpdateAt is set only when the record has none
updateSessionModeFlagsKeepingInstant(st, sessionKey, flags, t) ==
    updateSessionStoreEntry(st, sessionKey,
        flags @@ [lastModeUpdateAt |-> IF st[sessionKey].lastModeUpdateAt = <<>>
                                       THEN <<t>> ELSE st[sessionKey].lastModeUpdateAt])

\* updateSessionModeFlags (config/sessions/store.js): sets the flags given and
\* lastModeUpdateAt = now
updateSessionModeFlags(st, sessionKey, flags, t) ==
    updateSessionStoreEntry(st, sessionKey, flags @@ [lastModeUpdateAt |-> <<t>>])

OnOff(mode) == IF mode THEN "on" ELSE "off"

\* the lines of the TTL entry's body that record the previous state
TtlBody(saniMode, labyrinthMode, ttlMs) ==
    Body("Previous: saniMode=" \o OnOff(saniMode) \o ", labyrinthMode="
             \o OnOff(labyrinthMode) \o "; TTL Minutes: "
             \o ToString(ttlMs \div MinuteMs), NoDenied)

SaniModeTtlExpiredTitle ==
    <<"S","A","N","I"," ","M","o","d","e"," ","T","T","L"," ",
      "E","x","p","i","r","e","d">>
SaniModeExitTitle == <<"S","A","N","I"," ","M","o","d","e"," ","E","x","i","t">>

\* What a flag read or a handled message leaves: the error raised ("none"
\* when it returns), the flags returned, the triggers found, the entry
\* written last, the session store and the file system.
ModeOutcome(err, flags, triggers, path, st, fs, ds) ==
    [err |-> err, flags |-> flags, triggers |-> triggers, path |-> path,
     store |-> st, files |-> fs, dirs |-> ds]

\* readSaniSessionFlags at the instant t (params.now ?? Date.now()).  The
\* record is updated first; an error of writeThreadbornEntry is raised to the
\* caller.  entry.sessionId ?? sessionKey: every record of the model has a
\* session id.
readSaniSessionFlags(fs, ds, st, config, sessionKey0, t, io) ==
    LET sessionKey == TrimKey(sessionKey0)
        entry == st[sessionKey]
        saniMode == entry.saniMode = TRUE
        labyrinthMode == entry.labyrinthMode = TRUE
        ttlMs == resolveSaniModeTtlMs(config.modeTtlMinutes)
        lastModeUpdateAt == IF entry.lastModeUpdateAt # <<>>
                            THEN entry.lastModeUpdateAt[1] ELSE entry.updatedAt
        cleared == updateSessionStoreEntry(st, sessionKey,
                       [saniMode |-> FALSE, labyrinthMode |-> FALSE,
                        lastModeUpdateAt |-> <<t>>])
        w == writeThreadbornEntry(fs, ds, t, io, SaniModeTtlExpiredTitle,
                                  TtlBody(saniMode, labyrinthMode, ttlMs),
                                  <<"sani:ttl">>, entry.sessionId, "TTL_EXPIRE")
        none == ModeOutcome("none", Flags(FALSE, FALSE), NoCall.triggers, NoPath,
                            st, fs, ds)
    IN IF sessionKey = "" \/ ~config.defined THEN none
       ELSE IF sessionKey \notin DOMAIN st THEN none
       ELSE IF /\ ttlMs # 0
               /\ saniMode \/ labyrinthMode
               /\ t - lastModeUpdateAt > ttlMs
            THEN ModeOutcome(w.err, Flags(FALSE, FALSE), NoCall.triggers, w.path,
                             cleared, w.files, w.dirs)
       ELSE ModeOutcome("none", Flags(saniMode, labyrinthMode), NoCall.triggers,
                        NoPath, st, fs, ds)

\* buildLabyrinthBody: the line of the snapshot's body that records the modes
LabyrinthBody(saniMode, labyrinthMode) ==
    Body("Modes: saniMode=" \o OnOff(saniMode) \o ", labyrinthMode="
             \o OnOff(labyrinthMode), NoDenied)

ExitBody == Body("SANI mode exit requested; session flags cleared.", NoDenied)

\* The message_received handler of the SANI plugin from the session key on,
\* for the triggers found in the message.  Each branch updates the session
\* record and then writes its entry; an error of the write ends the handler.
\* entry.sessionId ?? sessionKey: every record of the model has a session id.
RunTriggers(fs, ds, st, t, io, triggers, sessionKey0) ==
    LET isHeySani == triggers.isHeySani
        isWhoAmI == triggers.isWhoAmI
        isExitSani == triggers.isExitSani
        sessionKey == TrimKey(sessionKey0)
        entry == st[sessionKey]
        sourceSessionId == entry.sessionId
        st1 == IF isHeySani
               THEN updateSessionModeFlags(st, sessionKey, [saniMode |-> TRUE], t)
               ELSE st
        st2 == IF isWhoAmI
               THEN updateSessionModeFlags(st1, sessionKey, [labyrinthMode |-> TRUE], t)
               ELSE st1
        snapshot == IF isWhoAmI
                    THEN writeLabyrinthSnapshot(fs, ds, t, io, LabyrinthSnapshotTitle,
                             LabyrinthBody(entry.saniMode = TRUE \/ isHeySani, TRUE),
                             sourceSessionId, "WHO_AM_I")
                    ELSE Outcome("none", NoPath, fs, ds)
        st3 == IF isExitSani
               THEN updateSessionModeFlags(st2, sessionKey,
                        [saniMode |-> FALSE, labyrinthMode |-> FALSE], t)
               ELSE st2
        exit == IF isExitSani
                THEN writeThreadbornEntry(snapshot.files, snapshot.dirs, t, io,
                         SaniModeExitTitle, ExitBody, <<"sani:exit">>,
                         sourceSessionId, "EXIT_SANI_MODE")
                ELSE snapshot
        ignored == ModeOutcome("none", NoCall.flags, triggers, NoPath, st, fs, ds)
    IN IF ~isHeySani /\ ~isWhoAmI /\ ~isExitSani THEN ignored
       ELSE IF sessionKey = "" THEN ignored
       ELSE IF sessionKey \notin DOMAIN st THEN ignored
       ELSE IF snapshot.err # "none"
            THEN ModeOutcome(snapshot.err, NoCall.flags, triggers, NoPath, st2,
                             snapshot.files, snapshot.dirs)
       ELSE ModeOutcome(exit.err, NoCall.flags, triggers, exit.path, st3,
                        exit.files, exit.dirs)

\* the handler stamps updatedAt on the session's record as well
messageReceivedStampingUpdatedAt(fs, ds, st, t, io, content, sessionKey0) ==
    RunTriggers(fs, ds,
                IF TrimKey(sessionKey0) \in DOMAIN st
                THEN [st EXCEPT ![TrimKey(sessionKey0)].updatedAt = t + 1]
                ELSE st,
                t, io,
                Triggers(matchesHeySaniTrigger(content), matchesWhoAmITrigger(content),
                         matchesExitSaniTrigger(content)),
                sessionKey0)

\* a record is made for a session key that has none before the triggers run
messageReceivedCreatingRecord(fs, ds, st, t, io, content, sessionKey0) ==
    RunTriggers(fs, ds,
                IF TrimKey(sessionKey0) = "" \/ TrimKey(sessionKey0) \in DOMAIN st
                THEN st
                ELSE st @@ (TrimKey(sessionKey0) :> SessionEntry(TrimKey(sessionKey0))),
                t, io,
                Triggers(matchesHeySaniTrigger(content), matchesWhoAmITrigger(content),
                         matchesExitSaniTrigger(content)),
                sessionKey0)

\* "hey sani" is taken for "who am i" as well
messageReceivedHeyAsWhoAmI(fs, ds, st, t, io, content, sessionKey0) ==
    RunTriggers(fs, ds, st, t, io,
                Triggers(matchesHeySaniTrigger(content),
                         matchesWhoAmITrigger(content) \/ matchesHeySaniTrigger(content),
                         matchesExitSaniTrigger(content)),
                sessionKey0)

\* the exit branch runs before the two activating branches
messageReceivedExitFirst(fs, ds, st, t, io, content, sessionKey0) ==
    LET found == Triggers(matchesHeySaniTrigger(content), matchesWhoAmITrigger(content),
                          matchesExitSaniTrigger(content))
        first == RunTriggers(fs, ds, st, t, io,
                             Triggers(FALSE, FALSE, found.isExitSani), sessionKey0)
        second == RunTriggers(first.files, first.dirs, first.store, t, io,
                              Triggers(found.isHeySani, found.isWhoAmI, FALSE),
                              sessionKey0)
    IN IF first.err # "none" THEN [first EXCEPT !.triggers = found]
       ELSE [second EXCEPT !.triggers = found,
                           !.path = IF second.path = NoPath THEN first.path
                                    ELSE second.path]

\* the message_received handler, for event.content and event.metadata.sessionKey
messageReceived(fs, ds, st, t, io, content, sessionKey0) ==
    RunTriggers(fs, ds, st, t, io,
                Triggers(matchesHeySaniTrigger(content), matchesWhoAmITrigger(content),
                         matchesExitSaniTrigger(content)),
                sessionKey0)

\* the event of a message and the parameters of a flag read, as `last` keeps them
MessageEvent(content, sessionKey) ==
    [NoCall.req EXCEPT !.sessionKey = sessionKey, !.content = content]

ReadParams(config, sessionKey) ==
    [NoCall.req EXCEPT !.sessionKey = sessionKey, !.modeConfig = config]

Handled(op, req, out) ==
    /\ files' = out.files
    /\ dirs' = out.dirs
    /\ store' = out.store
    /\ last' = [NoCall EXCEPT !.op = op, !.req = req, !.result = out.err,
                              !.path = out.path, !.flags = out.flags,
                              !.triggers = out.triggers]
    /\ UNCHANGED <<now, env, calls>>

MessageReceived(content, sessionKey, io, maxFiles) ==
    \E out \in {messageReceived(files, dirs, store, now, io, content, sessionKey)} :
       /\ WithinBounds(out.files, maxFiles)
       /\ Handled("message_received", MessageEvent(content, sessionKey), out)

ReadSaniSessionFlags(config, sessionKey, io, maxFiles) ==
    \E out \in {readSaniSessionFlags(files, dirs, store, config, sessionKey, now, io)} :
       /\ WithinBounds(out.files, maxFiles)
       /\ Handled("readSaniSessionFlags", ReadParams(config, sessionKey), out)

\* the clock moves on by ms milliseconds; the model keeps the instants within
\* MaxTime milliseconds of a whole minute
Elapse(ms) ==
    /\ (now + ms) % MinuteMs <= MaxTime
    /\ (now + ms) \div MinuteMs <= MaxMinutes
    /\ now' = now + ms
    /\ UNCHANGED <<files, dirs, env, store, last, calls>>

\* text of the given lines joined by a line break
RECURSIVE JoinLines(_, _)
JoinLines(lines, break) ==
    IF Len(lines) = 1 THEN lines[1]
    ELSE lines[1] \o break \o JoinLines(Tail(lines), break)

Line(words) == JoinLines(words, <<" ">>)
HeySaniText == Line(<<Hey, Sani>>)
WhoAmIText == Line(<<Who, Am, <<"I">>>>) \o <<"?">>
ExitSaniText == Line(<<Exit, <<"S","A","N","I">>, Mode>>) \o <<".">>
HelloText == <<"h","e","l","l","o">>

ModeMessages ==
    {HeySaniText, WhoAmIText, ExitSaniText, HelloText,
     JoinLines(<<HeySaniText, WhoAmIText>>, <<"\n">>)}

ModeConfigs == {Config(FALSE, <<>>), Config(TRUE, <<>>), Config(TRUE, <<1>>),
                Config(TRUE, <<0>>), Config(TRUE, <<-1>>)}

ModeSessions == {SessionKey, UnknownKey}

NextModes ==
    \/ Tick
    \/ \E content \in ModeMessages, sessionKey \in ModeSessions, io \in IoOutcomes :
           MessageReceived(content, sessionKey, io, MaxModeFiles)

SpecModes == Init /\ [][NextModes]_vars

\* the messages that switch a mode on
ActivatingMessages == {HeySaniText, WhoAmIText}

NextTtl ==
    \/ \E ms \in {1, MinuteMs} : Elapse(ms)
    \/ \E content \in ActivatingMessages \cup {ExitSaniText}, io \in NoFault :
           MessageReceived(content, SessionKey, io, MaxTtlFiles)
    \/ \E config \in ModeConfigs, sessionKey \in ModeSessions, io \in IoOutcomes :
           ReadSaniSessionFlags(config, sessionKey, io, MaxTtlFiles)

SpecTtl == Init /\ [][NextTtl]_vars

\* ------------------------------------------- properties of the session modes
IsFlagRead == IsCall("readSaniSessionFlags")

\* the read is given a config and the key of a session that has a record
ReadsRecord(req, st) == req.modeConfig.defined /\ TrimKey(req.sessionKey) \in DOMAIN st

\* the configured TTL is <= 0
TtlDisabled(req) ==
    req.modeConfig.modeTtlMinutes # <<>> /\ req.modeConfig.modeTtlMinutes[1] <= 0

\* the TTL of a read for which it is enabled (12 hours when none is configured)
TtlMsOf(req) ==
    IF req.modeConfig.modeTtlMinutes = <<>> THEN 12 * 60 * MinuteMs
    ELSE req.modeConfig.modeTtlMinutes[1] * MinuteMs

AnyModeOn(entry) == entry.saniMode \/ entry.labyrinthMode

\* TTL enabled, at least one mode true and now - lastModeUpdateAt > ttl
ExpiryApplies(req, st, t) ==
    /\ ReadsRecord(req, st)
    /\ ~TtlDisabled(req)
    /\ AnyModeOn(st[req.sessionKey])
    /\ st[req.sessionKey].lastModeUpdateAt # <<>>
    /\ t - st[req.sessionKey].lastModeUpdateAt[1] > TtlMsOf(req)

TtlEntries(fs) ==
    {p \in ThreadBornFiles(fs) :
        /\ "sani:ttl" \in Range(fs[p][1].tags)
        /\ HeaderOf(fs, p).source_trigger = "TTL_EXPIRE"}

\* the session's record has both modes false and lastModeUpdateAt = t
ClearedAt(entry, t) ==
    ~entry.saniMode /\ ~entry.labyrinthMode /\ entry.lastModeUpdateAt = <<t>>

\* C15: a flag read for a session with the TTL enabled, at least one mode true
\* and now - lastModeUpdateAt > ttl returns both flags false, leaves the
\* session record with both modes false and lastModeUpdateAt = now, and a
\* ThreadBorn entry tagged sani:ttl with trigger TTL_EXPIRE exists that records
\* the previous mode values and the TTL in minutes.
TtlExpiryClearsAndRecords ==
    [][(IsFlagRead /\ ExpiryApplies(last'.req, store, now))
        => LET entry == store[last'.req.sessionKey]
           IN /\ last'.result = "none"
              /\ last'.flags = Flags(FALSE, FALSE)
              /\ ClearedAt(store'[last'.req.sessionKey], now)
              /\ \E p \in TtlEntries(files') \ DOMAIN files :
                     files'[p][1].note
                         = "Previous: saniMode=" \o OnOff(entry.saniMode)
                             \o ", labyrinthMode=" \o OnOff(entry.labyrinthMode)
                             \o "; TTL Minutes: "
                             \o ToString(TtlMsOf(last'.req) \div MinuteMs)]_vars

\* an expiry whose entry could not be written: the read fails, the record is
\* cleared and no sani:ttl entry exists
TtlExpiryUnrecordedWitness ==
    /\ last.op = "readSaniSessionFlags"
    /\ last.result = "IOError"
    /\ ClearedAt(store[SessionKey], now)
    /\ TtlEntries(files) = {}

\* expiry does not apply: the configured TTL is <= 0, or both modes are false,
\* or now - lastModeUpdateAt <= ttl
ExpiryRuledOut(req, st, t) ==
    /\ ReadsRecord(req, st)
    /\ \/ TtlDisabled(req)
       \/ ~AnyModeOn(st[req.sessionKey])
       \/ /\ st[req.sessionKey].lastModeUpdateAt # <<>>
          /\ t - st[req.sessionKey].lastModeUpdateAt[1] <= TtlMsOf(req)

\* C16: a flag read for which expiry does not apply (TTL <= 0 whatever the
\* elapsed time, or both modes false, or now - lastModeUpdateAt <= ttl) returns
\* the stored saniMode and labyrinthMode, updates no session record and writes
\* no memory entry.
ReadIsPureWithoutExpiry ==
    [][(IsFlagRead /\ ExpiryRuledOut(last'.req, store, now))
        => /\ last'.result = "none"
           /\ last'.flags = Flags(store[last'.req.sessionKey].saniMode,
                                  store[last'.req.sessionKey].labyrinthMode)
           /\ store' = store
           /\ files' = files
           /\ dirs' = dirs]_vars

\* a read exactly one TTL after the last mode change returned a mode still on
ReadAtTtlWitness ==
    /\ last.op = "readSaniSessionFlags"
    /\ last.req.modeConfig.modeTtlMinutes = <<1>>
    /\ last.req.sessionKey = SessionKey
    /\ store[SessionKey].lastModeUpdateAt # <<>>
    /\ now - store[SessionKey].lastModeUpdateAt[1] = MinuteMs
    /\ last.flags.saniMode

IsMessage == IsCall("message_received")

\* the text of the message handled and the record of its session
ContentOf(req) == req.content
HasRecord(req, st) == TrimKey(req.sessionKey) \in DOMAIN st

\* the only trigger of the text is a standalone "hey sani" line
OnlyHeySani(text) ==
    /\ hasStandaloneTriggerLine(text, HEY_SANI_LINE)
    /\ ~hasStandaloneTriggerLine(text, WHO_AM_I_LINE)
    /\ ~hasStandaloneTriggerLine(text, EXIT_SANI_LINE)

\* C17: handling a message whose only trigger is a standalone "hey sani" line,
\* for a session with a record, sets saniMode and lastModeUpdateAt = now,
\* leaves labyrinthMode as it was and creates or changes no file.
HeySaniOnlySetsSaniMode ==
    [][(IsMessage /\ OnlyHeySani(ContentOf(last'.req)) /\ HasRecord(last'.req, store))
        => /\ last'.result = "none"
           /\ store'[last'.req.sessionKey].saniMode
           /\ store'[last'.req.sessionKey].lastModeUpdateAt = <<now>>
           /\ store'[last'.req.sessionKey].labyrinthMode
                  = store[last'.req.sessionKey].labyrinthMode
           /\ files' = files]_vars

\* "hey sani" handled after the clock moved, for a session in labyrinth mode
HeySaniWitness ==
    /\ last.op = "message_received"
    /\ ContentOf(last.req) = HeySaniText
    /\ last.req.sessionKey = SessionKey
    /\ now > 0
    /\ store[SessionKey].saniMode
    /\ store[SessionKey].labyrinthMode
    /\ store[SessionKey].lastModeUpdateAt = <<now>>

LabyrinthFiles(fs) == FilesIn(fs, resolveMemoryDir(WorkspaceDir, LABYRINTH_DIR))

\* the snapshots a "who am i" of the session writes
WhoAmISnapshots(fs, sessionId) ==
    {p \in LabyrinthFiles(fs) :
        /\ HeaderOf(fs, p).memory_type = "Labyrinth"
        /\ HeaderOf(fs, p).sealed = "false"
        /\ HeaderOf(fs, p).source_trigger = "WHO_AM_I"
        /\ HeaderOf(fs, p).source_session_id = sessionId}

\* C18: handling a standalone "who am i" line sets labyrinthMode with
\* lastModeUpdateAt = now and writes one Labyrinth snapshot with
\* memory_type = Labyrinth, sealed = false, source_trigger = WHO_AM_I and the
\* session's id; no handler run sets labyrinthMode without writing the snapshot.
WhoAmISetsModeWithSnapshot ==
    [][(/\ IsMessage
        /\ hasStandaloneTriggerLine(ContentOf(last'.req), WHO_AM_I_LINE)
        /\ ~hasStandaloneTriggerLine(ContentOf(last'.req), EXIT_SANI_LINE)
        /\ HasRecord(last'.req, store))
        => /\ store'[last'.req.sessionKey].labyrinthMode
           /\ store'[last'.req.sessionKey].lastModeUpdateAt = <<now>>
           /\ Cardinality(WhoAmISnapshots(files', store[last'.req.sessionKey].sessionId)
                              \ DOMAIN files) = 1]_vars

\* a "who am i" whose snapshot is refused because the file of the same
\* millisecond exists: the mode is set and no snapshot is added
WhoAmIWithoutSnapshotWitness ==
    /\ last.op = "message_received"
    /\ last.triggers.isWhoAmI
    /\ last.result = "AllocationExhausted"
    /\ store[SessionKey].labyrinthMode
    /\ Cardinality(LabyrinthFiles(files)) = 1

ExitEntries(fs) ==
    {p \in ThreadBornFiles(fs) :
        /\ "sani:exit" \in Range(fs[p][1].tags)
        /\ HeaderOf(fs, p).source_trigger = "EXIT_SANI_MODE"}

\* C19: handling a standalone "exit sani mode" line, from any of the four mode
\* combinations, leaves both modes false with lastModeUpdateAt = now and
\* writes one ThreadBorn entry tagged sani:exit with source_trigger =
\* EXIT_SANI_MODE; the modes are never cleared without the entry.
ExitClearsModesWithEntry ==
    [][(/\ IsMessage
        /\ hasStandaloneTriggerLine(ContentOf(last'.req), EXIT_SANI_LINE)
        /\ HasRecord(last'.req, store))
        => /\ ClearedAt(store'[last'.req.sessionKey], now)
           /\ Cardinality(ExitEntries(files') \ DOMAIN files) = 1]_vars

\* an exit whose entry could not be written: the modes are cleared and no
\* sani:exit entry exists
ExitWithoutEntryWitness ==
    /\ last.op = "message_received"
    /\ last.triggers.isExitSani
    /\ last.result = "IOError"
    /\ ClearedAt(store[SessionKey], now)
    /\ ExitEntries(files) = {}

\* ------------------------------------------------ trigger isolation
QuotedHeySani == <<">", " ">> \o HeySaniText
LoudHeySani ==
    <<" ", "H", "e", "y", ",", "\t">> \o <<"S","A","N","I">> \o <<"!", "?", " ">>
IndentedFence == <<" ", " ">> \o Backticks \o <<"j", "s">>
HeySanity == HeySaniText \o <<"t", "y">>

TriggerLines ==
    {HeySaniText, QuotedHeySani, LoudHeySani, WhoAmIText, IndentedFence, Tildes,
     HeySanity}

LineBreaks == {<<"\n">>, <<"\r", "\n">>}

\* the texts of up to MaxLines of the lines, joined by one of the line breaks
TriggerTexts ==
    UNION {{JoinLines(lines, break) : lines \in [1..n -> TriggerLines], break \in LineBreaks} :
           n \in 1..MaxLines}

\* the event of a message not handled yet
Pending(content, sessionKey) ==
    [NoCall EXCEPT !.op = "message_pending", !.req = MessageEvent(content, sessionKey)]

InitTriggers == \E content \in TriggerTexts : InitWith(Pending(content, SessionKey))

\* the handler runs for the message that is waiting
DeliverMessage(maxFiles) ==
    /\ last.op = "message_pending"
    /\ \E io \in NoFault :
           MessageReceived(ContentOf(last.req), last.req.sessionKey, io, maxFiles)

NextTriggers == DeliverMessage(MaxTriggerFiles)

SpecTriggers == InitTriggers /\ [][NextTriggers]_vars

\* line i is outside every fenced block: it is no fence line and the number
\* of fence lines before it is even
OutsideFences(lines, i) ==
    /\ ~IsFenceLine(lines[i])
    /\ Cardinality({j \in 1..(i - 1) : IsFenceLine(lines[j])}) % 2 = 0

\* block-quoted: a leading ">"
BlockQuoted(line) == line # <<>> /\ Head(line) = ">"

\* some line outside every fenced block and not block-quoted matches the phrase
Fires(text, pattern) ==
    \E i \in DOMAIN SplitLines(text) :
        /\ OutsideFences(SplitLines(text), i)
        /\ ~BlockQuoted(SplitLines(text)[i])
        /\ TestLine(SplitLines(text)[i], pattern)

\* C20: for every multi-line input a trigger fires if and only if some line
\* that is outside every fenced code block (the fence state toggled by each
\* fence line) and is not block-quoted matches the standalone phrase
\* case-insensitively with optional trailing punctuation; SANI mode is
\* activated exactly when the "hey sani" trigger fires.
TriggerFiresIffStandaloneLine ==
    last.op = "message_received"
        => /\ last.triggers = Triggers(Fires(ContentOf(last.req), HEY_SANI_LINE),
                                       Fires(ContentOf(last.req), WHO_AM_I_LINE),
                                       Fires(ContentOf(last.req), EXIT_SANI_LINE))
           /\ store[SessionKey].saniMode = Fires(ContentOf(last.req), HEY_SANI_LINE)

\* a message handled without a trigger though one of its three lines, inside
\* a fenced block, is the phrase
FencedTriggerWitness ==
    /\ last.op = "message_received"
    /\ last.triggers = Triggers(FALSE, FALSE, FALSE)
    /\ ~store[SessionKey].saniMode
    /\ ContentOf(last.req) = JoinLines(<<Tildes, HeySaniText, IndentedFence>>, <<"\n">>)

\* a message with a trigger line for a session key that has no record
TriggerWithoutRecord(req, st) ==
    /\ \/ hasStandaloneTriggerLine(ContentOf(req), HEY_SANI_LINE)
       \/ hasStandaloneTriggerLine(ContentOf(req), WHO_AM_I_LINE)
       \/ hasStandaloneTriggerLine(ContentOf(req), EXIT_SANI_LINE)
    /\ TrimKey(req.sessionKey) # ""
    /\ TrimKey(req.sessionKey) \notin DOMAIN st

\* C21 as stated: a trigger line for a session key without a record brings a
\* record for that key into existence, with the trigger's transition applied.
FirstTriggerCreatesRecord ==
    [][(IsMessage /\ TriggerWithoutRecord(last'.req, store))
        => /\ last'.req.sessionKey \in DOMAIN store'
           /\ store'[last'.req.sessionKey].lastModeUpdateAt = <<now>>]_vars

\* C21: a trigger line for a session key that has no record in the session
\* store is ignored: no record comes into existence, no record changes and no
\* entry is written.
TriggerWithoutRecordIsIgnored ==
    [][(IsMessage /\ TriggerWithoutRecord(last'.req, store))
        => /\ last'.result = "none"
           /\ store' = store
           /\ files' = files
           /\ dirs' = dirs]_vars

\* "hey sani" handled for a session key that has no record
TriggerWithoutRecordWitness ==
    /\ last.op = "message_received"
    /\ last.triggers.isHeySani
    /\ last.req.sessionKey = UnknownKey
    /\ UnknownKey \notin DOMAIN store

ModeFields == {"saniMode", "labyrinthMode", "lastModeUpdateAt"}

ScanRequest(content, channel) ==
    [NoCall.req EXCEPT !.content = content, !.channel = channel]

\* a text that waits to be scanned
Scanning(content, channel) ==
    [NoCall EXCEPT !.op = "scan_pending", !.req = ScanRequest(content, channel)]

\* detectInjectionPatterns(content, {channel}) returns its matches
DetectInjectionPatterns ==
    /\ last.op \in {"scan_pending", "detectInjectionPatterns"}
    /\ last' = [NoCall EXCEPT !.op = "detectInjectionPatterns", !.req = last.req,
                              !.matches = detectInjectionPatterns(last.req.content,
                                                                  last.req.channel)]
    /\ UNCHANGED <<files, dirs, now, env, store, calls>>

ToolCallText == <<"{","\"","t","o","o","l","\"",":","\"","x","\"","}">>
ToolKeyText == <<"\"","T","O","O","L","\""," ",":">>
SystemFenceText == <<Grave,Grave,Grave,"s","y","s","t","e","m","\n",Grave,Grave,Grave>>
PromptHeaderText == <<"#","#"," ","S","y","s","t","e","m"," ","P","r","o","m","p","t">>
PromptNoteText == <<"#","s","y","s","t","e","m"," ","p","r","o","m","p","t","s">>
OverrideText == <<"a","c","t"," ","a","s">>
MimicryText == <<"r","u","n","_","t","o","o","l","(","n","a","m","e","=","x",")">>
MemoryText == <<"b","e","g","i","n"," ","m","e","m","o","r","y">>
CommandText == <<"v","a","u","l","t","_","q","u","e","r","y">>
PlainText == <<"h","i">>

InjectionFragments ==
    {ToolCallText, ToolKeyText, SystemFenceText, PromptHeaderText, PromptNoteText,
     OverrideText, MimicryText, MemoryText, CommandText, PlainText}

\* the texts of up to MaxFragments fragments, one to a line
InjectionTexts ==
    UNION {{JoinLines(lines, <<"\n">>) : lines \in [1..n -> InjectionFragments]} :
           n \in 1..MaxFragments}

\* no channel, a blank one, an external one and the internal one
InjectionChannels == {"", " ", "slack", INTERNAL_MESSAGE_CHANNEL}

InitDetect ==
    \E content \in InjectionTexts, channel \in InjectionChannels :
        InitWith(Scanning(content, channel))

NextDetect == DetectInjectionPatterns

SpecDetect == InitDetect /\ [][NextDetect]_vars

\* the place of a pattern id in the registry
RegistryIndex(id) == CHOOSE i \in DOMAIN INJECTION_PATTERNS : INJECTION_PATTERNS[i].id = id

Reported(matches, pattern) == \E i \in DOMAIN matches : matches[i].id = pattern.id

\* matches holds exactly the applicable patterns found in the content, each
\* once and in registry order
ExactMatches(content, channel, matches) ==
    /\ \A i \in DOMAIN matches :
           /\ \E pattern \in Range(INJECTION_PATTERNS) :
                  matches[i] = InjectionMatch(pattern)
           /\ \A j \in DOMAIN matches :
                  i < j => RegistryIndex(matches[i].id) < RegistryIndex(matches[j].id)
    /\ \A pattern \in Range(INJECTION_PATTERNS) :
           /\ Reported(matches, pattern) => RegexTest(pattern.id, content)
           /\ pattern.scope # "non_agent_channel"
                  => (RegexTest(pattern.id, content) => Reported(matches, pattern))
           /\ pattern.scope = "non_agent_channel"
                  => /\ Reported(matches, pattern)
                          => ~isInternalMessageChannel(TrimKey(channel))
                     /\ (RegexTest(pattern.id, content) /\ TrimKey(channel) # ""
                          /\ ~isInternalMessageChannel(TrimKey(channel)))
                          => Reported(matches, pattern)

IdsOf(matches) == [i \in DOMAIN matches |-> matches[i].id]

\* C23: injection detection returns exactly the applicable patterns that match
\* the content, each once and in registry order; a pattern scoped to non-agent
\* channels is reported only for a message that did not arrive over the
\* internal channel, every other pattern whenever it matches; the call
\* returns normally, changes no state, and its result is fixed by the content
\* and the channel.
DetectionReturnsApplicableMatches ==
    [][IsCall("detectInjectionPatterns")
        => /\ last'.result = "none"
           /\ ExactMatches(last'.req.content, last'.req.channel, last'.matches)
           /\ last'.matches = detectInjectionPatterns(last'.req.content,
                                                      last'.req.channel)
           /\ files' = files /\ dirs' = dirs /\ store' = store /\ calls' = calls]_vars

FencedSystemBlockWitness ==
    /\ last.op = "detectInjectionPatterns"
    /\ last.req.content = JoinLines(<<SystemFenceText, ToolKeyText>>, <<"\n">>)
    /\ IdsOf(last.matches) = <<"tool_key_raw", "markdown_system_block">>

\* -------------------------------------------------- injection audit log
\* timestamp.toISOString(): the date is the UTC day of the instant, the time
\* its UTC hour and minute
DateTok(t) == "D" \o ToString(t \div DayMs)
TwoDigits(n) == <<ToString(n \div 10), ToString(n % 10)>>
IsoDate(t) == Seg(DateTok(t))
IsoTime(t) == TwoDigits((t % DayMs) \div HourMs) \o TwoDigits((t % HourMs) \div MinuteMs)

InjectionAttemptTitle == <<"I","n","j","e","c","t","i","o","n"," ","A","t","t","e","m","p","t">>
INJECTION_ATTEMPTS_DIR == Seg("injection-attempts")

\* the entry logInjectionAttempt appends: heading, timestamp, session key,
\* channel, the matched rules and the raw input
InjectionEntry(t, sessionKey, channel, rawInput, matches) ==
    [Block("injection", FALSE, EmptyMetadata, InjectionAttemptTitle, NoPath, t, <<>>,
           "", NoDenied)
       EXCEPT !.attempt = [timestamp |-> t, sessionKey |-> sessionKey,
                           channel |-> channel, matches |-> matches,
                           rawInput |-> rawInput]]

\* fs.appendFile(path, data): the file is created when it does not exist
appendFile(fs, path, data) ==
    IF path \in DOMAIN fs THEN [fs EXCEPT ![path] = Append(@, data)]
    ELSE (path :> <<data>>) @@ fs

\* fs.writeFile in place of fs.appendFile
logInjectionAttemptOverwriting(fs, ds, t, io, sessionKey, channel, rawInput, matches) ==
    LET targetDir == PathJoin(WorkspaceDir, <<MEMORY_ROOT, THREADBORN_DIR,
                                              INJECTION_ATTEMPTS_DIR, IsoDate(t)>>)
        targetFile == Append(targetDir, IsoTime(t) \o Md)
        entry == InjectionEntry(t, sessionKey, channel, rawInput, matches)
    IN IF matches = <<>> THEN ToolOutcome("none", NoPath, fs, ds, "skipped", NoPath)
       ELSE IF io = "mkdirFail" THEN ToolOutcome("none", NoPath, fs, ds, "IOError", NoPath)
       ELSE IF io = "fail"
            THEN ToolOutcome("none", NoPath, fs, ensureDir(ds, targetDir), "IOError", NoPath)
       ELSE ToolOutcome("none", targetFile, (targetFile :> <<entry>>) @@ fs,
                        ensureDir(ds, targetDir), "none", targetFile)

\* no try around the two file system calls
logInjectionAttemptUncaught(fs, ds, t, io, sessionKey, channel, rawInput, matches) ==
    LET targetDir == PathJoin(WorkspaceDir, <<MEMORY_ROOT, THREADBORN_DIR,
                                              INJECTION_ATTEMPTS_DIR, IsoDate(t)>>)
        targetFile == Append(targetDir, IsoTime(t) \o Md)
        entry == InjectionEntry(t, sessionKey, channel, rawInput, matches)
    IN IF matches = <<>> THEN ToolOutcome("none", NoPath, fs, ds, "skipped", NoPath)
       ELSE IF io = "mkdirFail" THEN ToolOutcome("IOError", NoPath, fs, ds, "skipped", NoPath)
       ELSE IF io = "fail"
            THEN ToolOutcome("IOError", NoPath, fs, ensureDir(ds, targetDir), "skipped",
                             NoPath)
       ELSE ToolOutcome("none", targetFile, appendFile(fs, targetFile, entry),
                        ensureDir(ds, targetDir), "none", targetFile)

\* logInjectionAttempt with timestamp = new Date().  io = "mkdirFail": fs.mkdir
\* throws; io = "fail": fs.appendFile throws.  The error raised to the caller
\* is always "none"; audit is what became of the write ("skipped" when there
\* was nothing to log, "IOError" when the error went to logVerbose).
logInjectionAttempt(fs, ds, t, io, sessionKey, channel, rawInput, matches) ==
    LET targetDir == PathJoin(WorkspaceDir, <<MEMORY_ROOT, THREADBORN_DIR,
                                              INJECTION_ATTEMPTS_DIR, IsoDate(t)>>)
        targetFile == Append(targetDir, IsoTime(t) \o Md)
        entry == InjectionEntry(t, sessionKey, channel, rawInput, matches)
    IN IF matches = <<>> THEN ToolOutcome("none", NoPath, fs, ds, "skipped", NoPath)
       ELSE IF io = "mkdirFail" THEN ToolOutcome("none", NoPath, fs, ds, "IOError", NoPath)
       ELSE IF io = "fail"
            THEN ToolOutcome("none", NoPath, fs, ensureDir(ds, targetDir), "IOError", NoPath)
       ELSE ToolOutcome("none", targetFile, appendFile(fs, targetFile, entry),
                        ensureDir(ds, targetDir), "none", targetFile)

\* the caller scans the text and logs what the scan found
LogInjectionAttempt(rawInput, channel, sessionKey, io, maxFiles) ==
    \E matches \in {detectInjectionPatterns(rawInput, channel)} :
    \E out \in {logInjectionAttempt(files, dirs, now, io, sessionKey, channel, rawInput,
                                    matches)} :
       /\ WithinBounds(out.files, maxFiles)
       /\ files' = out.files
       /\ dirs' = out.dirs
       /\ last' = [NoCall EXCEPT !.op = "logInjectionAttempt",
                                 !.req = [ScanRequest(rawInput, channel)
                                            EXCEPT !.sessionKey = sessionKey],
                                 !.result = out.err, !.path = out.path,
                                 !.audit = out.audit, !.auditPath = out.auditPath,
                                 !.matches = matches]
       /\ UNCHANGED <<now, env, store, calls>>

\* midnight UTC passes
NextDay ==
    /\ now \div DayMs < MaxDays
    /\ now' = (now \div DayMs + 1) * DayMs
    /\ UNCHANGED <<files, dirs, env, store, last, calls>>

\* a text that is logged and one with nothing to log
AuditTexts == {ToolCallText, PlainText}
AuditIo == {"ok", "fail", "mkdirFail"}

NextAudit ==
    \/ \E ms \in {1, MinuteMs} : Elapse(ms)
    \/ NextDay
    \/ \E rawInput \in AuditTexts, io \in AuditIo :
           LogInjectionAttempt(rawInput, "slack", SessionKey, io, MaxAuditFiles)

SpecAudit == Init /\ [][NextAudit]_vars

IsAuditLog == IsCall("logInjectionAttempt")

\* C24: injection audit logging never raises to its caller; with an empty
\* match list it creates no directory and no file; with matches, either the
\* entry is written, or the failure of the directory creation or of the file
\* write is reported to the diagnostic log only and the call still returns.
AuditLoggingNeverRaises ==
    [][IsAuditLog
        => /\ last'.result = "none"
           /\ last'.matches = <<>>
                  => files' = files /\ dirs' = dirs /\ last'.audit = "skipped"
           /\ last'.matches # <<>>
                  => \/ last'.audit = "none" /\ last'.path \in DOMAIN files'
                     \/ last'.audit = "IOError" /\ last'.path = NoPath
                            /\ files' = files]_vars

AuditFailureCaughtWitness ==
    /\ last.op = "logInjectionAttempt"
    /\ last.matches # <<>>
    /\ last.result = "none"
    /\ last.audit = "IOError"
    /\ MemoryFiles(files) = {}

\* the audit file of instant t, written out: the day and the minute of the
\* day t falls in
AuditFileOf(t) ==
    LET day == t \div DayMs
        minuteOfDay == (t - day * DayMs) \div MinuteMs
        hour == minuteOfDay \div 60
        minute == minuteOfDay % 60
    IN WorkspaceDir \o
       <<Seg("memory"), Seg("ThreadBorn"), Seg("injection-attempts"),
         Seg("D" \o ToString(day)),
         <<ToString(hour \div 10), ToString(hour % 10),
           ToString(minute \div 10), ToString(minute % 10), ".", "m", "d">>>>

EntriesOf(fs, p) == IF p \in DOMAIN fs THEN fs[p] ELSE <<>>

\* C25: an attempt with matches that is logged at instant t is recorded in
\* memory/ThreadBorn/injection-attempts/<UTC date of t>/<UTC HHMM of t>.md;
\* the entry holds the session key, the channel, the id of every match and the
\* raw input as given; it is added after the entries the file of that minute
\* already holds, which stay as they were, as does every other file.
AuditEntriesAccumulatePerMinute ==
    [][(IsAuditLog /\ last'.matches # <<>> /\ last'.audit = "none")
        => LET p == AuditFileOf(now)
               entry == files'[p][Len(files'[p])].attempt
           IN /\ last'.path = p
              /\ DOMAIN files' = DOMAIN files \cup {p}
              /\ \A q \in DOMAIN files \ {p} : files'[q] = files[q]
              /\ Len(files'[p]) = Len(EntriesOf(files, p)) + 1
              /\ IsPrefix(EntriesOf(files, p), files'[p])
              /\ entry.timestamp = now
              /\ entry.sessionKey = last'.req.sessionKey
              /\ entry.channel = last'.req.channel
              /\ entry.rawInput = last'.req.content
              /\ IdsOf(entry.matches) = IdsOf(last'.matches)]_vars

SameMinuteAttemptsWitness ==
    /\ last.op = "logInjectionAttempt"
    /\ last.path = AuditFileOf(now)
    /\ now % MinuteMs # 0
    /\ Len(files[last.path]) = 2
    /\ files[last.path][1].attempt.timestamp < now
    /\ files[last.path][2].attempt.timestamp = now

\* ------------------------------------------------------------ vault_query
VAULT_PREVIEW_LINES == 4

VaultAppendTitle == <<"V","a","u","l","t"," ","A","p","p","e","n","d">>

\* A line of a file's text after its front matter: a heading ("# title"), a
\* "- Key: value" line (the value being a path, an instant or a tag list), a
\* line of body text, or an empty line.
TextLine(kind, key, title, path, at, tags, note) ==
    [kind |-> kind, key |-> key, title |-> title, path |-> path, at |-> at,
     tags |-> tags, note |-> note]
HeadingLine(title) == TextLine("heading", "", title, NoPath, -1, <<>>, "")
FieldLine(key, path, at, tags) == TextLine("field", key, <<>>, path, at, tags, "")
BodyLine(note) == TextLine("text", "", <<>>, NoPath, -1, <<>>, note)
BlankLine == BodyLine("")

\* line?.trim() is empty
IsBlankLine(line) == line.kind = "text" /\ line.note = ""

\* the lines a block was written as
BlockLines(b) ==
    CASE b.kind = "append" ->
            <<BlankLine, HeadingLine(VaultAppendTitle),
              FieldLine("AppendedAt", NoPath, b.at, <<>>),
              FieldLine("AppendedFrom", b.from, -1, <<>>),
              BlankLine, BodyLine(b.note), BlankLine>>
      [] b.kind = "entry" /\ b.metadata.memory_type = "Vault" ->
            <<HeadingLine(b.title), BlankLine,
              FieldLine("SEALED", NoPath, -1, <<>>),
              FieldLine("SealedFrom", b.from, -1, <<>>),
              FieldLine("SealedAt", NoPath, b.at, <<>>),
              BlankLine, BodyLine(b.note), BlankLine>>
      [] b.kind = "entry" /\ b.metadata.memory_type = "BridgeThread" ->
            <<HeadingLine(b.title), BlankLine,
              FieldLine("PromotedFrom", b.from, -1, <<>>),
              FieldLine("PromotedAt", NoPath, b.at, <<>>),
              BlankLine, BodyLine(b.note), BlankLine>>
      [] b.kind = "entry" /\ b.metadata.memory_type = "Labyrinth" ->
            <<HeadingLine(b.title), BlankLine,
              FieldLine("Created", NoPath, b.at, <<>>),
              BlankLine, BodyLine(b.note), BlankLine>>
      [] b.kind = "entry" /\ b.metadata.memory_type = "ThreadBorn" ->
            <<HeadingLine(b.title), FieldLine("Created", NoPath, b.at, <<>>)>>
            \o (IF b.tags # <<>> THEN <<FieldLine("Tags", NoPath, -1, b.tags)>> ELSE <<>>)
            \o (IF b.note # "" THEN <<BodyLine(b.note)>> ELSE <<>>)
      [] OTHER ->
            (IF b.title # <<>> THEN <<HeadingLine(b.title)>> ELSE <<>>)
            \o <<BodyLine(b.note)>>

\* stripFrontMatter(content.split(/\r?\n/))
RECURSIVE stripFrontMatter(_)
stripFrontMatter(content) ==
    IF content = <<>> THEN <<>>
    ELSE BlockLines(Head(content)) \o stripFrontMatter(Tail(content))

\* the index of the first line that is not blank (Len + 1 when there is none)
RECURSIVE FirstLine(_, _)
FirstLine(lines, i) ==
    IF i > Len(lines) \/ ~IsBlankLine(lines[i]) THEN i ELSE FirstLine(lines, i + 1)

\* previewLines.join("\n").trim(): blank lines at the end are dropped
RECURSIVE TrimLines(_)
TrimLines(lines) ==
    IF lines # <<>> /\ IsBlankLine(lines[Len(lines)])
    THEN TrimLines(SubSeq(lines, 1, Len(lines) - 1)) ELSE lines

\* extractTitleAndPreview: the title is the first line that is not blank (the
\* heading text when it is a heading), the preview the VAULT_PREVIEW_LINES
\* lines from the first non-blank line after it
extractTitleAndPreview(content) ==
    LET lines == stripFrontMatter(content)
        i == FirstLine(lines, 1)
        start == FirstLine(lines, i + 1)
        end == IF start + VAULT_PREVIEW_LINES - 1 < Len(lines)
               THEN start + VAULT_PREVIEW_LINES - 1 ELSE Len(lines)
    IN [title |-> IF i > Len(lines) THEN HeadingLine(VaultEntryTitle)
                  ELSE IF lines[i].kind = "heading" THEN HeadingLine(lines[i].title)
                  ELSE lines[i],
        preview |-> TrimLines(SubSeq(lines, start, end))]

\* the words of a file's text a tag is looked up in, in lower case
LowerWord(w) ==
    CASE w = "NOTE" -> "note"
      [] w = "Vault" -> "vault"
      [] OTHER -> w

FileWords(content) ==
    UNION {{LowerWord(content[i].note), LowerWord(content[i].metadata.memory_type)}
           \cup {LowerWord(content[i].tags[k]) : k \in DOMAIN content[i].tags} :
           i \in DOMAIN content}

\* matchesTags: every tag occurs in the text, whatever the case
matchesTags(content, tags) ==
    tags = <<>> \/ \A k \in DOMAIN tags : LowerWord(tags[k]) \in FileWords(content)

isDirectory(ds, dirPath) == dirPath \in ds

\* resolveVaultScopeDir: path.join normalises the scope
resolveVaultScopeDir(ds, scope) ==
    LET vaultDir == PathJoin(WorkspaceDir, <<MEMORY_ROOT, VAULT_DIR>>)
        scopedDir == PathResolve(vaultDir, <<Seg(scope)>>)
    IN IF isDirectory(ds, scopedDir) THEN scopedDir ELSE vaultDir

\* entry.name.toLowerCase().endsWith(".md")
EndsWithMd(name) ==
    Len(name) >= Len(Md) /\ ToLower(SubSeq(name, Len(name) - Len(Md) + 1, Len(name))) = Md

\* listMarkdownFiles: the markdown files below dirPath, none when it cannot
\* be read
listMarkdownFiles(fs, ds, dirPath) ==
    IF ~isDirectory(ds, dirPath) THEN {}
    ELSE {p \in DOMAIN fs : isPathWithin(dirPath, p) /\ EndsWithMd(Basename(p))}

QueryOutcome(err, results, fs, ds) ==
    ToolOutcome(err, NoPath, fs, ds, "skipped", NoPath) @@ [results |-> results]

\* formatPathOutput, title and preview of the files that match
QueryResults(fs, ds, scope, tags) ==
    {[path |-> PathRelative(WorkspaceDir, p),
      title |-> extractTitleAndPreview(fs[p]).title,
      preview |-> extractTitleAndPreview(fs[p]).preview] :
        p \in {q \in listMarkdownFiles(fs, ds, resolveVaultScopeDir(ds, scope)) :
                   matchesTags(fs[q], tags)}}

VAULT_ACCESS_DIR == Seg("vault_access")

\* a record of the query is appended under memory/ThreadBorn/vault_access
vaultQueryExecuteLoggingAccess(fs, ds, t, io, req) ==
    LET results == QueryResults(fs, ds, req.scope, req.tags)
        dir == PathJoin(WorkspaceDir, <<MEMORY_ROOT, THREADBORN_DIR, VAULT_ACCESS_DIR>>)
        target == Append(dir, <<DateTok(t), "-">> \o IsoTime(t) \o Md)
        record == [Block("access", FALSE, EmptyMetadata, <<>>, NoPath, t, <<>>, "",
                         NoDenied)
                     EXCEPT !.access = [scope |-> req.scope,
                                        results |-> Cardinality(results),
                                        titles |-> {r.title : r \in results}]]
    IN IF io = "fail" /\ listMarkdownFiles(fs, ds, resolveVaultScopeDir(ds, req.scope)) # {}
       THEN QueryOutcome("IOError", {}, fs, ds)
       ELSE QueryOutcome("none", results, appendFile(fs, target, record),
                         ensureDir(ds, dir))

\* createVaultQueryTool.execute.  io = "fail": fs.readFile throws for a file
\* that was listed.
vaultQueryExecute(fs, ds, t, io, req) ==
    IF io = "fail" /\ listMarkdownFiles(fs, ds, resolveVaultScopeDir(ds, req.scope)) # {}
    THEN QueryOutcome("IOError", {}, fs, ds)
    ELSE QueryOutcome("none", QueryResults(fs, ds, req.scope, req.tags), fs, ds)

QueryRequest(scope, tags) == [NoCall.req EXCEPT !.scope = scope, !.tags = tags]

VaultQuery(req, io, maxFiles) ==
    \E out \in {vaultQueryExecute(files, dirs, now, io, req)} :
       /\ WithinBounds(out.files, maxFiles)
       /\ files' = out.files
       /\ dirs' = out.dirs
       /\ last' = [NoCall EXCEPT !.op = "vault_query", !.req = req,
                                 !.result = out.err, !.results = out.results]
       /\ UNCHANGED <<now, env, store, calls>>

\* an entry filed by hand under the identity scope
IdentityEntryTitle == <<"I","d","e","n","t","i","t","y"," ","E","n","t","r","y">>
IdentityEntry ==
    PathJoin(WorkspaceDir, <<MEMORY_ROOT, VAULT_DIR, Seg("identity"), <<"e","n","t","r","y",".","m","d">>>>)
IdentityContent ==
    <<Block("raw", FALSE, EmptyMetadata, IdentityEntryTitle, NoPath, -1, <<>>,
            "line one", NoDenied)>>

\* the workspace as it starts, with or without the identity scope
InitQuery ==
    \E scoped \in BOOLEAN :
        /\ files = (IF scoped THEN (IdentityEntry :> IdentityContent) ELSE <<>>)
                     @@ (OutsideFile :> RawContent("secret"))
                     @@ (ElsewhereFile :> RawContent("source"))
        /\ dirs = Ancestors(WorkspaceDir)
                    \cup (IF scoped THEN Ancestors(Dirname(IdentityEntry)) ELSE {})
        /\ now = 0
        /\ env = "unset"
        /\ store = (SessionKey :> SessionEntry("sani-session"))
                     @@ (NoIdKey :> SessionEntry(""))
        /\ last = NoCall
        /\ calls = [i \in Slots |-> IdleCall]

\* two of VAULT_QUERY_SCOPES, one with a directory and one without, and a
\* scope that is none of them
QueryScopes == {"identity", "history", ".."}
QueryTags == {<<>>, <<"NOTE">>, <<"note", "absent">>}
QueryRequests == {QueryRequest(scope, tags) : scope \in QueryScopes, tags \in QueryTags}

NextQuery ==
    \/ \E value \in {"unset", "true"} : SetRuntimeToggle(value)
    \/ \E req \in WriteRequests, io \in NoFault : ThreadbornWrite(req, io, MaxQueryFiles)
    \/ \E req \in LifecycleSeals(files), io \in NoFault : VaultSeal(req, io, MaxQueryFiles)
    \/ \E req \in QueryRequests, io \in IoOutcomes : VaultQuery(req, io, MaxQueryFiles)

SpecQuery == InitQuery /\ [][NextQuery]_vars

IsQuery == IsCall("vault_query")

VaultAccessFiles(fs) ==
    FilesIn(fs, WorkspaceDir \o <<Seg("memory"), Seg("ThreadBorn"), Seg("vault_access")>>)

\* the query wrote one record of itself: scope, number of results, titles
AccessLogged(fsBefore, fsAfter, t, req, results) ==
    \E p \in VaultAccessFiles(fsAfter) :
        /\ Len(fsAfter[p]) = Len(EntriesOf(fsBefore, p)) + 1
        /\ \A q \in VaultAccessFiles(fsAfter) \ {p} :
               q \in DOMAIN fsBefore /\ fsAfter[q] = fsBefore[q]
        /\ Basename(p) = <<"D" \o ToString(t \div DayMs), "-">>
                           \o SubSeq(Basename(AuditFileOf(t)), 1, 4) \o <<".", "m", "d">>
        /\ LET record == fsAfter[p][Len(fsAfter[p])].access
           IN /\ record.scope = req.scope
              /\ record.results = Cardinality(results)
              /\ record.titles = {r.title : r \in results}

\* C27: every vault_query call is audited: a call that returns writes exactly
\* one access-log entry under memory/ThreadBorn/vault_access, named by date and
\* time, that records the queried scope, the number of results and the titles
\* of the entries returned.
VaultQueryIsAudited ==
    [][(IsQuery /\ last'.result = "none")
        => AccessLogged(files, files', now, last'.req, last'.results)]_vars

QueryUnloggedWitness ==
    /\ last.op = "vault_query"
    /\ last.result = "none"
    /\ last.req.scope = "identity"
    /\ Cardinality(last.results) = 1
    /\ \E r \in last.results : r.title = HeadingLine(IdentityEntryTitle)
    /\ VaultAccessFiles(files) = {}

\* the entries the store wrote: files under memory/ that open with a header
StoreEntries(fs) ==
    {p \in MemoryFiles(fs) : fs[p] # <<>> /\ fs[p][1].kind = "entry" /\ fs[p][1].fm}

\* the tier directory a file of the store lies in
TierDirOf(p) == RelOf(p)[2]

\* C28: in every reachable state every entry created by the four governed
\* write operations has sealed = true exactly when its memory_type is Vault,
\* and its memory_type is the tier directory it lies in (ThreadBorn,
\* BridgeThread, Vault, Labyrinth): no sealed entry outside memory/Vault, no
\* unsealed entry header inside it.
SealedIffVaultTier ==
    \A p \in StoreEntries(files) :
        LET header == files[p][1].metadata
        IN /\ header.sealed \in {"true", "false"}
           /\ header.sealed = "true" <=> header.memory_type = "Vault"
           /\ header.memory_type \in {"ThreadBorn", "BridgeThread", "Vault", "Labyrinth"}
           /\ TierDirOf(p) = Seg(header.memory_type)
           /\ header.sealed = "true" <=> isPathWithin(resolveVaultDir(WorkspaceDir), p)

SealedAndUnsealedWitness ==
    /\ \E p \in StoreEntries(files) :
           files[p][1].metadata.sealed = "true" /\ TierDirOf(p) = VAULT_DIR
    /\ \E p \in StoreEntries(files) :
           files[p][1].metadata.sealed = "false" /\ TierDirOf(p) # VAULT_DIR
    /\ last.op = "vault_seal"
    /\ last.result = "none"

\* ------------------------------------------------- provenance of writes
GovernedWrites == {"threadborn_write", "bridge_promote", "vault_seal", "labyrinth_snapshot"}

\* the session id and trigger a request brings: the ones the caller passes
\* (threadborn_write, labyrinth_snapshot, the denial entry of vault_seal) or
\* the ones the tool resolves from the session store (bridge_promote, vault_seal)
ProvenanceOf(op, req) ==
    {<<req.source_session_id, req.source_trigger>>}
    \cup (IF op \in {"bridge_promote", "vault_seal"}
             /\ TrimKey(req.sessionKey) \in DOMAIN store
          THEN {<<store[TrimKey(req.sessionKey)].sessionId, ToUpperCase(op)>>}
          ELSE {})

\* the blocks a step wrote: the content of a new file, the tail added to an old one
WrittenBlocks(before, after) ==
    {after[p][i] : p \in DOMAIN after \ DOMAIN before, i \in {1}}
    \cup {after[p][Len(after[p])] :
             p \in {q \in DOMAIN before \cap DOMAIN after : after[q] # before[q]}}

CarriesProvenance(b, pairs) ==
    /\ b.metadata.source_session_id # ""
    /\ b.metadata.source_trigger # ""
    /\ <<b.metadata.source_session_id, b.metadata.source_trigger>> \in pairs

\* C29 - every write of the governed store records its provenance: each entry
\* created and each block appended to a Vault entry by threadborn_write,
\* bridge_promote, vault_seal or labyrinth_snapshot carries the source session
\* id and the source trigger of the request that caused it.
EveryWriteRecordsProvenance ==
    [][(last'.op \in GovernedWrites /\ IsCall(last'.op))
          => \A b \in WrittenBlocks(files, files') :
                 CarriesProvenance(b, ProvenanceOf(last'.op, last'.req))]_vars

\* a Vault append went through and the block it added names the source file
\* and the time, but no session id and no trigger, under a header that has both
AppendWithoutProvenanceWitness ==
    /\ last.op = "vault_seal"
    /\ last.result = "none"
    /\ last.req.append = "true"
    /\ last.path \in DOMAIN files
    /\ Len(files[last.path]) > 1
    /\ LET b == files[last.path][Len(files[last.path])]
       IN /\ b.kind = "append"
          /\ b.from # NoPath
          /\ b.metadata.source_session_id = ""
          /\ b.metadata.source_trigger = ""
    /\ files[last.path][1].metadata.source_session_id # ""
    /\ files[last.path][1].metadata.source_trigger # ""

\* ------------------------------------------------- sealing toggle script
LOG_FOLDER == Seg("admin-override")
VaultSealingOverrideTitle ==
    <<"V","a","u","l","t"," ","S","e","a","l","i","n","g"," ","O","v","e","r","r","i","d","e">>
SealingTogglePrefix ==
    <<"s","e","a","l","i","n","g","-","t","o","g","g","l","e","-">>

\* the script runs in the workspace: process.cwd()/.env, and the path of the
\* configuration file readConfigFileSnapshot reports
EnvFilePath == Append(WorkspaceDir, Seg(".env"))
ConfigFilePath == <<Seg("host"), Seg("openclaw.json")>>

\* resolveEnvFilePath: the .env file of the working directory, when it is a file
resolveEnvFilePath(fs) == IF EnvFilePath \in DOMAIN fs THEN EnvFilePath ELSE NoPath

\* the line upsertEnvVar puts into the .env file
EnvVarLine(enabled) ==
    Block("env", FALSE, EmptyMetadata, <<>>, NoPath, -1, <<>>,
          IF enabled THEN "true" ELSE "false", NoDenied)

\* upsertEnvVar: the line of the key is replaced, or added after the others
upsertEnvVar(raw, enabled) ==
    IF \E i \in DOMAIN raw : raw[i].kind = "env"
    THEN [i \in DOMAIN raw |-> IF raw[i].kind = "env" THEN EnvVarLine(enabled) ELSE raw[i]]
    ELSE Append(raw, EnvVarLine(enabled))

\* body of the log file: heading, action, timestamp, tags, target (the user
\* line is the same for every run of one installation)
OverrideBody(t, enabled, target) ==
    Block("override", FALSE, EmptyMetadata, VaultSealingOverrideTitle, target, t,
          <<"vault:override", "admin-override">>,
          IF enabled THEN "enabled" ELSE "disabled", NoDenied)

\* fs.appendFile in place of fs.writeFile
logAdminOverrideAppending(fs, ds, t, io, enabled, target) ==
    LET logDir == PathJoin(WorkspaceDir, <<MEMORY_ROOT, THREADBORN_DIR, LOG_FOLDER,
                                           IsoDate(t)>>)
        logPath == Append(logDir, SealingTogglePrefix \o IsoTime(t) \o Md)
    IN IF io = "mkdirFail" THEN Outcome("IOError", NoPath, fs, ds)
       ELSE IF io = "fail" THEN Outcome("IOError", NoPath, fs, ensureDir(ds, logDir))
       ELSE Outcome("none", logPath, appendFile(fs, logPath, OverrideBody(t, enabled, target)),
                    ensureDir(ds, logDir))

\* logAdminOverride with now = new Date().  fs.writeFile without a flag
\* replaces the content of an existing file; an error of fs.mkdir or
\* fs.writeFile is not caught here.
logAdminOverride(fs, ds, t, io, enabled, target) ==
    LET logDir == PathJoin(WorkspaceDir, <<MEMORY_ROOT, THREADBORN_DIR, LOG_FOLDER,
                                           IsoDate(t)>>)
        logPath == Append(logDir, SealingTogglePrefix \o IsoTime(t) \o Md)
    IN IF io = "mkdirFail" THEN Outcome("IOError", NoPath, fs, ds)
       ELSE IF io = "fail" THEN Outcome("IOError", NoPath, fs, ensureDir(ds, logDir))
       ELSE Outcome("none", logPath,
                    (logPath :> <<OverrideBody(t, enabled, target)>>) @@ fs,
                    ensureDir(ds, logDir))

\* main: the .env file of the working directory is rewritten when there is
\* one, else the configuration file (which lies outside the workspace); then
\* the override is logged.  The running process keeps its environment.
toggleVaultSealingMain(fs, ds, t, io, enabled) ==
    LET envFilePath == resolveEnvFilePath(fs)
        fs1 == IF envFilePath # NoPath
               THEN [fs EXCEPT ![envFilePath] = upsertEnvVar(@, enabled)]
               ELSE fs
        targetLabel == IF envFilePath # NoPath THEN envFilePath ELSE ConfigFilePath
    IN logAdminOverride(fs1, ds, t, io, enabled, targetLabel)

ToggleVaultSealing(enabled, io, maxFiles) ==
    \E out \in {toggleVaultSealingMain(files, dirs, now, io, enabled)} :
       /\ WithinBounds(out.files, maxFiles)
       /\ files' = out.files
       /\ dirs' = out.dirs
       /\ last' = [NoCall EXCEPT !.op = "toggle_vault_sealing",
                                 !.result = out.err, !.path = out.path]
       /\ UNCHANGED <<now, env, store, calls>>

MaxOwnershipFiles == 2

\* every operation that writes under memory/, all within one minute
NextOwnership ==
    \/ \E value \in {"unset", "true"} : SetRuntimeToggle(value)
    \/ \E req \in WriteRequests, io \in NoFault :
           ThreadbornWrite(req, io, MaxOwnershipFiles)
    \/ \E req \in LifecyclePromotes(files), io \in NoFault :
           BridgePromote(req, io, MaxOwnershipFiles)
    \/ \E req \in LifecycleSeals(files), io \in NoFault :
           VaultSeal(req, io, MaxOwnershipFiles)
    \/ \E req \in WriteRequests, io \in NoFault :
           LabyrinthSnapshot(req, io, MaxOwnershipFiles)
    \/ \E io \in NoFault :
           LogInjectionAttempt(ToolCallText, "slack", SessionKey, io, MaxOwnershipFiles)
    \/ \E enabled \in BOOLEAN, io \in IoOutcomes :
           ToggleVaultSealing(enabled, io, MaxOwnershipFiles)

SpecOwnership == Init /\ [][NextOwnership]_vars

\* the files of before whose content is not the same in after
ChangedFiles(before, after) ==
    {p \in DOMAIN before : p \notin DOMAIN after \/ after[p] # before[p]}

IsVaultAppend ==
    /\ last'.op = "vault_seal"
    /\ last'.req.append = "true"
    /\ last'.result = "none"

\* C30 (as stated) - the Vault append path is the sole mutator of existing
\* files: a step of any other operation (ThreadBorn write, promotion, seal,
\* Labyrinth snapshot, denial audit, injection audit logging, sealing-toggle
\* logging) leaves the content of every existing file as it was.
OnlyVaultAppendMutates ==
    [][ChangedFiles(files, files') # {} => IsVaultAppend]_vars

\* C30 (amended) - among the operations of the governed store the Vault append
\* is the only one that changes an existing file, and it adds a block to its
\* target inside memory/Vault: ThreadBorn write, promotion, seal, Labyrinth
\* snapshot and denial audit only create files.  The two loggers outside the
\* store write to a minute-named file that may exist: injection audit logging
\* adds its entry after the earlier ones, sealing-toggle logging replaces the
\* content with its one record.
OnlyAppendAndMinuteLogsMutate ==
    [][\A p \in ChangedFiles(files, files') :
          /\ p \in DOMAIN files'
          /\ p = last'.path
          /\ \/ /\ IsVaultAppend
                /\ isPathWithin(resolveVaultDir(WorkspaceDir), p)
                /\ IsPrefix(files[p], files'[p])
             \/ /\ last'.op = "logInjectionAttempt"
                /\ IsPrefix(files[p], files'[p])
                /\ Len(files'[p]) = Len(files[p]) + 1
             \/ /\ last'.op = "toggle_vault_sealing"
                /\ Len(files'[p]) = 1]_vars

\* a second injection attempt of one minute was added to that minute's file
\* while a sealing-toggle log lies beside it
MinuteLogGrewWitness ==
    /\ last.op = "logInjectionAttempt"
    /\ last.audit = "none"
    /\ Len(files[last.path]) > 1
    /\ \E p \in DOMAIN files : files[p][1].kind = "override"

\* ------------------------------------------------- vault_seal parameter misuse
MaxMisuseFiles == 3

VaultDirPath == <<MEMORY_ROOT, VAULT_DIR>>

\* vault_seal calls for the first note: a seal, appends without a target, with
\* a target outside the workspace, outside memory/Vault, memory/Vault itself,
\* a missing file in memory/Vault and an existing one, and a target without
\* append
MisuseSeals(fs) ==
    {SealCall(FirstNote, BaseCaller)}
    \cup {AppendCall(FirstNote, tg) :
             tg \in {NoPath, EscapingPath, FirstNote, VaultDirPath, MissingTargetPath}
                    \cup {RelOf(p) : p \in VaultFiles(fs)}}
    \cup {ToolRequest(FirstNote, VaultEntryTitle, append, RelOf(p), BaseCaller) :
             append \in {"unset", "false"}, p \in VaultFiles(fs)}

NextMisuse ==
    \/ \E value \in {"unset", "true"} : SetRuntimeToggle(value)
    \/ \E req \in WriteRequests, io \in NoFault : ThreadbornWrite(req, io, MaxMisuseFiles)
    \/ \E req \in MisuseSeals(files), io \in NoFault : VaultSeal(req, io, MaxMisuseFiles)

SpecMisuse == Init /\ [][NextMisuse]_vars

\* the four kinds of misuse, told from the request and the files before the call
AppendWithoutTarget(req) == req.append = "true" /\ req.target = NoPath
TargetNotInsideVault(req) ==
    /\ req.append = "true"
    /\ req.target # NoPath
    /\ LET down == PathResolve(WorkspaceDir, req.target)
       IN ~(Len(down) > Len(resolveVaultDir(WorkspaceDir))
            /\ SubSeq(down, 1, Len(resolveVaultDir(WorkspaceDir)))
                  = resolveVaultDir(WorkspaceDir))
TargetMissing(req, fs, ds) ==
    /\ req.append = "true"
    /\ req.target # NoPath
    /\ ~Exists(fs, ds, PathResolve(WorkspaceDir, req.target))
TargetWithoutAppend(req) == req.append # "true" /\ req.target # NoPath

IsMisuse(req, fs, ds) ==
    \/ AppendWithoutTarget(req)
    \/ TargetNotInsideVault(req)
    \/ TargetMissing(req, fs, ds)
    \/ TargetWithoutAppend(req)

\* C31 - vault_seal parameter misuse fails without any mutation: a call with
\* append=true and no target, with a target that does not resolve strictly
\* inside memory/Vault, or with a target that does not exist, and a call that
\* gives a target without append=true, each fail, create no file under
\* memory/Vault and leave every existing file, the target included, as it was.
MisuseFailsWithoutMutation ==
    [][(IsCall("vault_seal") /\ IsMisuse(last'.req, files, dirs))
          => /\ last'.result # "none"
             /\ VaultFiles(files') = VaultFiles(files)
             /\ \A p \in DOMAIN files : p \in DOMAIN files' /\ files'[p] = files[p]]_vars

\* with sealing enabled, a call that named an existing Vault entry as target
\* without append was refused, and the entry holds only what the seal wrote
TargetWithoutAppendRefusedWitness ==
    /\ env = "true"
    /\ last.op = "vault_seal"
    /\ TargetWithoutAppend(last.req)
    /\ last.result = "InvalidAppendCombination"
    /\ ResolvedTarget(last.req) \in VaultFiles(files)
    /\ Len(files[ResolvedTarget(last.req)]) = 1

\* ------------------------------------------------- scope of a vault query
UnderDir(dir, p) == Len(p) > Len(dir) /\ SubSeq(p, 1, Len(dir)) = dir

\* the files a query of the scope is to list: the markdown files below
\* memory/Vault/<scope> when that directory exists, else below memory/Vault
ScopeListing(fs, ds, scope, tags) ==
    LET vaultDir == WorkspaceDir \o <<MEMORY_ROOT, VAULT_DIR>>
        root == IF Append(vaultDir, Seg(scope)) \in ds THEN Append(vaultDir, Seg(scope))
                ELSE vaultDir
    IN {p \in DOMAIN fs :
           UnderDir(root, p) /\ EndsWithMd(p[Len(p)]) /\ matchesTags(fs[p], tags)}

ListedPaths(results) == {WorkspaceDir \o r.path : r \in results}

MaxMessages == 3
MaxLimit == 2
DefaultSnippetLimit == 6
MinSnippetChars == 120
DefaultSnippetChars == 320

\* A part of a message's content: a text part, or a part without text.
TextPart(text) == [kind |-> "text", text |-> text]
ImagePart == [kind |-> "image", text |-> <<>>]

\* A message of the session context; role "" stands for a role that is not a string.
Message(role, content) == [role |-> role, content |-> content]

RECURSIVE JoinParts(_)
JoinParts(parts) == IF parts = <<>> THEN <<>> ELSE parts[1] \o JoinParts(Tail(parts))

\* collectText for a content array: the texts of its parts, joined
collectText(content) ==
    JoinParts([i \in DOMAIN content |->
                  IF content[i].kind = "text" THEN content[i].text ELSE <<>>])

Ellipsis == "..."

\* the snippet of a message: its role and its trimmed text, cut at maxChars
SnippetOf(message, maxChars) ==
    LET text == Trim(collectText(message.content))
    IN [role |-> IF message.role = "" THEN "unknown" ELSE message.role,
        text |-> IF Len(text) > maxChars THEN Append(SubSeq(text, 1, maxChars), Ellipsis)
                 ELSE text]

\* the loop of readRecentSessionSnippets from index i down: snippets is what
\* has been pushed so far, newest first
RECURSIVE CollectSnippets(_, _, _, _, _)
CollectSnippets(messages, i, limit, maxChars, snippets) ==
    IF ~(i >= 1 /\ Len(snippets) < limit) THEN snippets
    ELSE IF Trim(collectText(messages[i].content)) = <<>>
         THEN CollectSnippets(messages, i - 1, limit, maxChars, snippets)
    ELSE CollectSnippets(messages, i - 1, limit, maxChars,
                         Append(snippets, SnippetOf(messages[i], maxChars)))

Reverse(s) == [i \in 1..Len(s) |-> s[Len(s) + 1 - i]]

\* the snippets are returned as collected, newest first
readRecentSessionSnippetsNewestFirst(messages, limit0, maxChars0) ==
    LET limit == MathMax(1, IF limit0 = -1 THEN DefaultSnippetLimit ELSE limit0)
        maxChars == MathMax(MinSnippetChars,
                            IF maxChars0 = -1 THEN DefaultSnippetChars ELSE maxChars0)
    IN CollectSnippets(messages, Len(messages), limit, maxChars, <<>>)

\* readRecentSessionSnippets for the messages of the session file; limit0 and
\* maxChars0 are -1 when the parameter is absent
readRecentSessionSnippets(messages, limit0, maxChars0) ==
    LET limit == MathMax(1, IF limit0 = -1 THEN DefaultSnippetLimit ELSE limit0)
        maxChars == MathMax(MinSnippetChars,
                            IF maxChars0 = -1 THEN DefaultSnippetChars ELSE maxChars0)
    IN Reverse(CollectSnippets(messages, Len(messages), limit, maxChars, <<>>))

\* buildLabyrinthBody: the numbered lines under "## Recent Messages"
RecentMessageLines(snippets) ==
    [i \in 1..Len(snippets) |-> [index |-> i, role |-> snippets[i].role,
                                 text |-> snippets[i].text]]

LongText == [i \in 1..(MinSnippetChars + 1) |-> "x"]

\* the contents drawn: no part, a blank text, a part without text, two short
\* texts, a text in two parts around a part without text, and a text longer
\* than the cut
SnippetMessages ==
    {Message("user", <<>>),
     Message("assistant", <<TextPart(<<" ">>)>>),
     Message("user", <<TextPart(<<"a">>)>>),
     Message("", <<TextPart(<<"b">>), ImagePart, TextPart(<<"c", " ">>)>>),
     Message("assistant", <<TextPart(LongText)>>)}

SnippetInputs ==
    UNION {[1..n -> SnippetMessages] : n \in 0..MaxMessages}

\* a session waits for its snapshot list
InitSnippets ==
    \E messages \in SnippetInputs, limit \in {-1} \cup 0..MaxLimit :
        InitWith([NoCall EXCEPT !.op = "snippets_pending",
                                !.req = [NoCall.req EXCEPT !.messages = messages,
                                                           !.limit = limit]])

\* the snapshot's list of recent messages is built
ReadRecentSessionSnippets ==
    /\ last.op \in {"snippets_pending", "readRecentSessionSnippets"}
    /\ last' = [NoCall EXCEPT !.op = "readRecentSessionSnippets", !.req = last.req,
                  !.snippets = RecentMessageLines(
                                   readRecentSessionSnippets(last.req.messages,
                                                             last.req.limit, -1))]
    /\ UNCHANGED <<files, dirs, now, env, store, calls>>

NextSnippets == ReadRecentSessionSnippets

SpecSnippets == InitSnippets /\ [][NextSnippets]_vars

\* indices of the messages whose text is not empty, oldest first
HasText(message) ==
    \E i \in DOMAIN message.content :
        message.content[i].kind = "text"
        /\ \E k \in DOMAIN message.content[i].text : message.content[i].text[k] # " "

RECURSIVE TextIndices(_, _)
TextIndices(messages, i) ==
    IF i > Len(messages) THEN <<>>
    ELSE (IF HasText(messages[i]) THEN <<i>> ELSE <<>>) \o TextIndices(messages, i + 1)

\* C33 - the recent-message list of a Labyrinth snapshot is, for every message
\* sequence and limit N >= 1, exactly the last min(N, number of messages with
\* non-empty text) messages that have non-empty text, in their original order
\* oldest to newest: messages with empty text are skipped without counting
\* toward N, and no message is duplicated or reordered.
RecentListIsLastMessagesWithText ==
    (last.op = "readRecentSessionSnippets" /\ last.req.limit # 0) =>
        LET messages == last.req.messages
            n == IF last.req.limit = -1 THEN DefaultSnippetLimit ELSE last.req.limit
            withText == TextIndices(messages, 1)
            count == IF n < Len(withText) THEN n ELSE Len(withText)
            chosen == SubSeq(withText, Len(withText) - count + 1, Len(withText))
        IN /\ Len(last.snippets) = count
           /\ \A k \in 1..count :
                  /\ last.snippets[k].index = k
                  /\ last.snippets[k].role = (IF messages[chosen[k]].role = ""
                                               THEN "unknown"
                                               ELSE messages[chosen[k]].role)
                  /\ last.snippets[k].text
                         = SnippetOf(messages[chosen[k]], DefaultSnippetChars).text

\* three messages, the middle one blank, limit 2: the list is the first and
\* the third message, in that order
BlankSkippedWitness ==
    /\ last.op = "readRecentSessionSnippets"
    /\ last.req.limit = 2
    /\ Len(last.req.messages) = 3
    /\ ~HasText(last.req.messages[2])
    /\ HasText(last.req.messages[1])
    /\ HasText(last.req.messages[3])
    /\ last.req.messages[1] # last.req.messages[3]
    /\ Len(last.snippets) = 2
    /\ last.snippets[1].role = (IF last.req.messages[1].role = "" THEN "unknown"
                                ELSE last.req.messages[1].role)

\* ------------------------------------------- several triggers in one message
MaxOrderFiles == 2

\* the messages made of one, two or three different trigger lines, in every order
OrderLines ==
    {<<HeySaniText>>, <<WhoAmIText>>, <<ExitSaniText>>,
     <<HeySaniText, ExitSaniText>>, <<ExitSaniText, HeySaniText>>,
     <<WhoAmIText, ExitSaniText>>, <<ExitSaniText, WhoAmIText>>,
     <<HeySaniText, WhoAmIText>>, <<WhoAmIText, HeySaniText>>,
     <<HeySaniText, WhoAmIText, ExitSaniText>>, <<HeySaniText, ExitSaniText, WhoAmIText>>,
     <<WhoAmIText, HeySaniText, ExitSaniText>>, <<WhoAmIText, ExitSaniText, HeySaniText>>,
     <<ExitSaniText, HeySaniText, WhoAmIText>>, <<ExitSaniText, WhoAmIText, HeySaniText>>}

OrderMessages == {JoinLines(lines, <<"\n">>) : lines \in OrderLines}

HasLine(lines, text) == \E i \in DOMAIN lines : lines[i] = text

NextOrder ==
    \/ Tick
    \/ \E content \in OrderMessages, io \in NoFault :
           MessageReceived(content, SessionKey, io, MaxOrderFiles)

SpecOrder == Init /\ [][NextOrder]_vars

\* the files that are new after the step and carry the given trigger
WrittenFor(trigger) ==
    {p \in DOMAIN files' \ DOMAIN files :
        files'[p][1].metadata.source_trigger = trigger}

\* C34 - within one message the transitions are applied in the order hey-sani,
\* who-am-i, exit, whatever the order of the lines: a message with an exit
\* trigger line beside hey-sani and/or who-am-i lines leaves the session, when
\* all writes succeed, with saniMode and labyrinthMode false; the snapshot of
\* its who-am-i line was taken before the exit, with labyrinthMode on and with
\* saniMode on when the message has a hey-sani line.
ExitIsAppliedLast ==
    [][\A lines \in OrderLines :
          (/\ IsCall("message_received")
           /\ last'.req.content = JoinLines(lines, <<"\n">>)
           /\ HasLine(lines, ExitSaniText)
           /\ Len(lines) > 1
           /\ last'.result = "none")
          => /\ store'[SessionKey].saniMode = FALSE
             /\ store'[SessionKey].labyrinthMode = FALSE
             /\ Cardinality(WrittenFor("EXIT_SANI_MODE")) = 1
             /\ Cardinality(WrittenFor("WHO_AM_I"))
                   = (IF HasLine(lines, WhoAmIText) THEN 1 ELSE 0)
             /\ \A p \in WrittenFor("WHO_AM_I") :
                    files'[p][1].note
                       = LabyrinthBody(store[SessionKey].saniMode = TRUE
                                          \/ HasLine(lines, HeySaniText), TRUE).note]_vars

\* the exit line came first, before a hey-sani and a who-am-i line; the modes
\* are off and the snapshot shows both on
ExitLineFirstWitness ==
    /\ last.op = "message_received"
    /\ last.req.content = JoinLines(<<ExitSaniText, HeySaniText, WhoAmIText>>, <<"\n">>)
    /\ last.result = "none"
    /\ store[SessionKey].saniMode = FALSE
    /\ store[SessionKey].labyrinthMode = FALSE
    /\ \E p \in DOMAIN files :
           /\ files[p][1].metadata.source_trigger = "WHO_AM_I"
           /\ files[p][1].note = LabyrinthBody(TRUE, TRUE).note

\* ------------------------------------ flag reads and messages that overlap
\* A flag read and a handled message are suspended at the session-store update
\* and at the file write they await, so the steps of several of them
\* interleave.  A slot holds the call in flight: the call and its parameters,
\* the instant it began and the session record loadSessionStore gave it.
MaxExpiryFiles == 2

Awaiting(status, op, req, entry, t) ==
    [status |-> status, op |-> op, req |-> req, entry |-> entry, at |-> t] @@ IdleCall

\* the test of readSaniSessionFlags on the record it loaded: the TTL is
\* enabled, a mode is true and now - lastModeUpdateAt > ttl
ExpiredRecord(entry, config, t) ==
    LET ttlMs == resolveSaniModeTtlMs(config.modeTtlMinutes)
        lastModeUpdateAt == IF entry.lastModeUpdateAt # <<>>
                            THEN entry.lastModeUpdateAt[1] ELSE entry.updatedAt
    IN /\ ttlMs # 0
       /\ entry.saniMode = TRUE \/ entry.labyrinthMode = TRUE
       /\ t - lastModeUpdateAt > ttlMs

\* what `last` holds after a session-store update: the modes it replaced
Updated(req, entry) ==
    [NoCall EXCEPT !.op = "updateSessionStoreEntry", !.req = req,
                   !.flags = Flags(entry.saniMode, entry.labyrinthMode)]

\* readSaniSessionFlags up to its first await: it returns the stored flags, or
\* finds the record expired and asks for the clearing update
BeginRead(i, config, sessionKey, maxFiles) ==
    /\ calls[i].status = "idle"
    /\ TrimKey(sessionKey) \in DOMAIN store
    /\ config.defined
    /\ IF ExpiredRecord(store[TrimKey(sessionKey)], config, now)
       THEN /\ calls' = [calls EXCEPT ![i] =
                            Awaiting("updating", "readSaniSessionFlags",
                                     ReadParams(config, sessionKey),
                                     store[TrimKey(sessionKey)], now)]
            /\ UNCHANGED <<files, dirs, now, env, store, last>>
       ELSE ReadSaniSessionFlags(config, sessionKey, "ok", maxFiles)

\* the clearing update of a read is applied: its fields replace those of the
\* record as it is now
CommitClear(i) ==
    /\ calls[i].status = "updating"
    /\ calls[i].op = "readSaniSessionFlags"
    /\ store' = updateSessionStoreEntry(store, TrimKey(calls[i].req.sessionKey),
                    [saniMode |-> FALSE, labyrinthMode |-> FALSE,
                     lastModeUpdateAt |-> <<calls[i].at>>])
    /\ calls' = [calls EXCEPT ![i].status = "writing"]
    /\ last' = Updated(calls[i].req, store[TrimKey(calls[i].req.sessionKey)])
    /\ UNCHANGED <<files, dirs, now, env>>

\* the read writes the entry of the expiry it found and returns
WriteTtlEntry(i, io, maxFiles) ==
    /\ calls[i].status = "writing"
    /\ calls[i].op = "readSaniSessionFlags"
    /\ \E w \in {writeThreadbornEntry(files, dirs, now, io, SaniModeTtlExpiredTitle,
                     TtlBody(calls[i].entry.saniMode = TRUE,
                             calls[i].entry.labyrinthMode = TRUE,
                             resolveSaniModeTtlMs(calls[i].req.modeConfig.modeTtlMinutes)),
                     <<"sani:ttl">>, calls[i].entry.sessionId, "TTL_EXPIRE")} :
          /\ WithinBounds(w.files, maxFiles)
          /\ files' = w.files
          /\ dirs' = w.dirs
          /\ last' = [NoCall EXCEPT !.op = "readSaniSessionFlags", !.req = calls[i].req,
                                    !.result = w.err, !.path = w.path]
    /\ calls' = [calls EXCEPT ![i] = IdleCall]
    /\ UNCHANGED <<now, env, store>>

\* the session's modes were never switched
NeverActivated(st, sessionKey) == st[sessionKey].lastModeUpdateAt = <<>>

\* the TTL of one minute
OneMinuteTtl == Config(TRUE, <<1>>)

NextExpiry ==
    \/ \E ms \in {1, MinuteMs} : Elapse(ms)
    \/ \E content \in ActivatingMessages, io \in NoFault :
           /\ NeverActivated(store, SessionKey)
           /\ MessageReceived(content, SessionKey, io, MaxExpiryFiles)
    \/ \E i \in Slots : BeginRead(i, OneMinuteTtl, SessionKey, MaxExpiryFiles)
    \/ \E i \in Slots : CommitClear(i)
    \/ \E i \in Slots, io \in IoOutcomes : WriteTtlEntry(i, io, MaxExpiryFiles)

SpecExpiry == Init /\ [][NextExpiry]_vars

\* a clearing update has just been applied
ClearApplied == last'.op = "updateSessionStoreEntry" /\ calls' # calls

\* C35: one expiry is audited once: for a session whose modes have expired (a
\* session activated once), the flag reads, two reads that overlap included,
\* together apply one clearing update (each clearing update finds a mode on)
\* and write one sani:ttl entry; further reads write nothing.
OneExpiryAuditedOnce ==
    [][/\ ClearApplied => AnyModeOn(store[SessionKey])
       /\ Cardinality(TtlEntries(files')) <= 1]_vars

\* two reads of one expired session overlapped: each loaded the record before
\* the other's update, and there are two sani:ttl entries of the one expiry
ExpiryAuditedTwiceWitness ==
    /\ Cardinality(TtlEntries(files)) = 2
    /\ last.op = "readSaniSessionFlags"
    /\ ClearedAt(store[SessionKey], now)

\* --------------------------------------- an activation and a clear that race
MaxRaceFiles == 1

\* the triggers of the message a slot holds
TriggersOf(c) ==
    Triggers(matchesHeySaniTrigger(c.req.content), matchesWhoAmITrigger(c.req.content),
             matchesExitSaniTrigger(c.req.content))

\* the message_received handler up to its first await, for a message with one
\* activating trigger: it loads the session's record and asks for the update
BeginMessage(i, content, sessionKey) ==
    /\ calls[i].status = "idle"
    /\ content \in ActivatingMessages
    /\ TrimKey(sessionKey) \in DOMAIN store
    /\ calls' = [calls EXCEPT ![i] =
                    Awaiting("updating", "message_received",
                             MessageEvent(content, sessionKey),
                             store[TrimKey(sessionKey)], now)]
    /\ UNCHANGED <<files, dirs, now, env, store, last>>

\* the update of the handler is applied; a "hey sani" is handled with it, a
\* "who am i" goes on to write its snapshot
CommitModeFlags(i) ==
    /\ calls[i].status = "updating"
    /\ calls[i].op = "message_received"
    /\ store' = updateSessionModeFlags(store, TrimKey(calls[i].req.sessionKey),
                    IF TriggersOf(calls[i]).isHeySani THEN [saniMode |-> TRUE]
                    ELSE [labyrinthMode |-> TRUE], now)
    /\ calls' = [calls EXCEPT ![i] = IF TriggersOf(calls[i]).isWhoAmI
                                     THEN [@ EXCEPT !.status = "writing"]
                                     ELSE IdleCall]
    /\ last' = [NoCall EXCEPT !.op = "message_received", !.req = calls[i].req,
                              !.triggers = TriggersOf(calls[i])]
    /\ UNCHANGED <<files, dirs, now, env>>

\* the handler of a "who am i" writes its snapshot and returns
WriteSnapshot(i, io, maxFiles) ==
    /\ calls[i].status = "writing"
    /\ calls[i].op = "message_received"
    /\ \E w \in {writeLabyrinthSnapshot(files, dirs, now, io, LabyrinthSnapshotTitle,
                     LabyrinthBody(calls[i].entry.saniMode = TRUE, TRUE),
                     calls[i].entry.sessionId, "WHO_AM_I")} :
          /\ WithinBounds(w.files, maxFiles)
          /\ files' = w.files
          /\ dirs' = w.dirs
          /\ last' = [NoCall EXCEPT !.op = "message_received", !.req = calls[i].req,
                                    !.result = w.err, !.path = w.path,
                                    !.triggers = TriggersOf(calls[i])]
    /\ calls' = [calls EXCEPT ![i] = IdleCall]
    /\ UNCHANGED <<now, env, store>>

\* a call takes the first slot that is not in use
FirstIdle(i) == \A j \in Slots : j < i => calls[j].status # "idle"

NextRace ==
    \/ \E ms \in {1, MinuteMs} : Elapse(ms)
    \/ \E i \in Slots, content \in ActivatingMessages :
           FirstIdle(i) /\ BeginMessage(i, content, SessionKey)
    \/ \E i \in Slots : CommitModeFlags(i)
    \/ \E i \in Slots, io \in NoFault : WriteSnapshot(i, io, MaxRaceFiles)
    \/ \E i \in Slots : FirstIdle(i) /\ BeginRead(i, OneMinuteTtl, SessionKey, MaxRaceFiles)
    \/ \E i \in Slots : CommitClear(i)
    \/ \E i \in Slots, io \in NoFault : WriteTtlEntry(i, io, MaxRaceFiles)

SpecRace == Init /\ [][NextRace]_vars

\* the read in slot i applies its clearing update
ClearAppliedBy(i) ==
    /\ calls[i].status = "updating"
    /\ calls[i].op = "readSaniSessionFlags"
    /\ calls'[i].status = "writing"

\* the mode is on in the record `current` through an update applied after the
\* record `loaded` was read
ActivatedSince(loaded, current, mode) ==
    /\ current[mode] = TRUE
    /\ loaded[mode] # TRUE \/ current.lastModeUpdateAt # loaded.lastModeUpdateAt

\* C36: a mode activation is never lost to a concurrent TTL clear: when an
\* activating update was applied after a read loaded the expired record and
\* before that read applies its clearing update, the activated mode is true in
\* the record after the clearing update.
ActivationSurvivesClear ==
    [][\A i \in Slots, mode \in {"saniMode", "labyrinthMode"} :
          (/\ ClearAppliedBy(i)
           /\ ActivatedSince(calls[i].entry, store[SessionKey], mode))
          => store'[SessionKey][mode] = TRUE]_vars

\* a "who am i" was applied after a read had loaded the expired record, in
\* which labyrinthMode was off, and the read's clearing update then switched
\* labyrinthMode off again
ActivationLostWitness ==
    /\ last.op = "updateSessionStoreEntry"
    /\ last.flags.labyrinthMode
    /\ ~store[SessionKey].labyrinthMode
    /\ \E i \in Slots :
          /\ calls[i].status = "writing"
          /\ calls[i].op = "readSaniSessionFlags"
          /\ calls[i].entry.labyrinthMode # TRUE

\* ------------------------------------------------ the clear and its entry
\* C37: TTL clearing and its audit entry are all-or-nothing: a flag read that
\* finds the session expired either clears the modes and writes a sani:ttl
\* entry, or, when the ThreadBorn write fails, leaves the session's record as
\* it was.
TtlClearIsAllOrNothing ==
    [][(IsFlagRead /\ ExpiryApplies(last'.req, store, now))
        => IF TtlEntries(files') \ DOMAIN files = {}
           THEN store' = store
           ELSE ClearedAt(store'[last'.req.sessionKey], now)]_vars

\* a read with a TTL of one minute failed at the write of its entry: the
\* modes it found on are off in the record and no file holds the expiry
ClearedWithoutEntryWitness ==
    /\ last.op = "readSaniSessionFlags"
    /\ last.req.modeConfig = OneMinuteTtl
    /\ last.result # "none"
    /\ last.path = NoPath
    /\ ~AnyModeOn(store[SessionKey])
    /\ store[SessionKey].lastModeUpdateAt = <<now>>
    /\ \A p \in ThreadBornFiles(files) : HeaderOf(files, p).source_trigger # "TTL_EXPIRE"

\* ------------------------------------------------ one instant for both modes
\* the text has a line that switches a mode on and none that switches them off
Activates(text) ==
    /\ \/ hasStandaloneTriggerLine(text, HEY_SANI_LINE)
       \/ hasStandaloneTriggerLine(text, WHO_AM_I_LINE)
    /\ ~hasStandaloneTriggerLine(text, EXIT_SANI_LINE)

\* the read is made with the TTL enabled, no later than one TTL after the
\* record's lastModeUpdateAt
WithinTtl(req, st, t) ==
    /\ ReadsRecord(req, st)
    /\ ~TtlDisabled(req)
    /\ st[req.sessionKey].lastModeUpdateAt # <<>>
    /\ t - st[req.sessionKey].lastModeUpdateAt[1] <= TtlMsOf(req)

\* C38: the two modes share a single lastModeUpdateAt: activating either mode
\* sets it to now and leaves a mode that is on as it is, however long ago that
\* mode was set; a flag read made within one TTL of the last activation
\* returns every mode of the record, the earlier one included, and writes no
\* sani:ttl entry.
ActivationRestartsTtlForBoth ==
    [][/\ (IsMessage /\ HasRecord(last'.req, store) /\ Activates(ContentOf(last'.req)))
          => /\ store'[last'.req.sessionKey].lastModeUpdateAt = <<now>>
             /\ store[last'.req.sessionKey].saniMode
                   => store'[last'.req.sessionKey].saniMode
             /\ store[last'.req.sessionKey].labyrinthMode
                   => store'[last'.req.sessionKey].labyrinthMode
       /\ (IsFlagRead /\ WithinTtl(last'.req, store, now))
          => /\ last'.flags = Flags(store[last'.req.sessionKey].saniMode,
                                    store[last'.req.sessionKey].labyrinthMode)
             /\ store' = store
             /\ TtlEntries(files') = TtlEntries(files)]_vars

\* labyrinthMode was set by a "who am i" more than one TTL ago (its snapshot
\* says when), saniMode was set later, and a read with a TTL of one minute
\* made after that returned both modes on; no sani:ttl entry exists
EarlierModeOutlivesTtlWitness ==
    /\ last.op = "readSaniSessionFlags"
    /\ last.req.modeConfig = OneMinuteTtl
    /\ last.flags = Flags(TRUE, TRUE)
    /\ \E p \in WhoAmISnapshots(files, store[SessionKey].sessionId) :
          /\ now - HeaderOf(files, p).created_at > MinuteMs
          /\ store[SessionKey].lastModeUpdateAt[1] > HeaderOf(files, p).created_at
    /\ TtlEntries(files) = {}

\* ------------------------------------------------- titles that aim elsewhere
MaxRedirectFiles == 2
LongRun == MAX_SLUG_LENGTH - 2 * TsLen - 1

\* titles with path separators and parent segments, a title that is empty
\* after slugging, and one whose slug is cut in the middle (it starts with two
\* timestamps, each a single element of the sequence)
EscapingTitle == <<".", ".", "/", ".", ".", "\\", "x">>
SeparatorsTitle == <<"/", "\\", "/">>
LongTitle ==
    <<TsTok(0), TsTok(0)>> \o [k \in 1..LongRun |-> "a"] \o <<"/", "b", "c">>
RedirectTitles == {EscapingTitle, SeparatorsTitle, LongTitle}

Titled(req, title) == [req EXCEPT !.title = title]

NextRedirect ==
    \/ SetRuntimeToggle("true")
    \/ \E req \in WriteRequests, title \in RedirectTitles, io \in NoFault :
           ThreadbornWrite(Titled(req, title), io, MaxRedirectFiles)
    \/ \E req \in LifecyclePromotes(files), title \in RedirectTitles \cup {<<>>},
          io \in NoFault :
           BridgePromote(Titled(req, title), io, MaxRedirectFiles)
    \/ \E req \in LifecycleSeals(files), title \in RedirectTitles \cup {<<>>},
          io \in NoFault :
           VaultSeal(Titled(req, title), io, MaxRedirectFiles)
    \/ \E req \in WriteRequests, title \in RedirectTitles, io \in NoFault :
           LabyrinthSnapshot(Titled(req, title), io, MaxRedirectFiles)

SpecRedirect == Init /\ [][NextRedirect]_vars

\* the characters [a-z0-9._-]; a timestamp in lower case stands for its
\* characters, which are of the set
SlugChars == Range(LowerChars) \cup Digits \cup {".", "_", "-"} \cup TsToksLower

RECURSIVE SlugLength(_)
SlugLength(s) == IF s = <<>> THEN 0 ELSE CharLen(Head(s)) + SlugLength(Tail(s))

IsSlug(s) ==
    /\ SlugLength(s) \in 1..MAX_SLUG_LENGTH
    /\ \A k \in DOMAIN s : s[k] \in SlugChars

\* nothing, or -N
NameSuffixes == {<<>>} \cup {<<"-", ToString(n)>> : n \in 2..MaxAttempts}

\* <timestamp-slug>-<slug>[-N].md
IsEntryName(name) ==
    \E sfx \in NameSuffixes :
       LET rest == Len(sfx) + Len(Md)
       IN /\ Len(name) > 2 + rest
          /\ name[1] \in TsToks
          /\ name[2] = "-"
          /\ SubSeq(name, Len(name) - rest + 1, Len(name)) = sfx \o Md
          /\ IsSlug(SubSeq(name, 3, Len(name) - rest))

\* the tier directory of each operation
TierOf(op) ==
    CASE op = "threadborn_write" -> THREADBORN_DIR
      [] op = "bridge_promote" -> BRIDGETHREAD_DIR
      [] op = "vault_seal" -> VAULT_DIR
      [] op = "labyrinth_snapshot" -> LABYRINTH_DIR

\* the directory of the operation's tier, or ThreadBorn, where a refused seal
\* is recorded
DirsOf(op) ==
    {resolveMemoryDir(WorkspaceDir, TierOf(op)),
     resolveMemoryDir(WorkspaceDir, THREADBORN_DIR)}

\* C39: a title can never redirect a write: whatever the title, the file a
\* ThreadBorn write, a promotion, a seal or a Labyrinth snapshot creates is a
\* direct child of its tier directory, with a file name of the form
\* <timestamp-slug>-<slug>[-N].md whose slug has 1 to 60 characters of
\* [a-z0-9._-].
TitleNeverRedirects ==
    [][\A op \in {"threadborn_write", "bridge_promote", "vault_seal",
                  "labyrinth_snapshot"} :
          IsCall(op) =>
             /\ \A p \in DOMAIN files' \ DOMAIN files :
                   /\ Dirname(p) \in DirsOf(op)
                   /\ IsEntryName(Basename(p))
             /\ last'.result = "none"
                   => /\ DOMAIN files' \ DOMAIN files # {}
                      /\ \A p \in DOMAIN files' \ DOMAIN files :
                            Dirname(p) = resolveMemoryDir(WorkspaceDir, TierOf(op))]_vars

\* a ThreadBorn note was promoted under the title ../..\x: the new file is
\* memory/BridgeThread/<timestamp>-..-..-x.md
RedirectingTitleWitness ==
    /\ last.op = "bridge_promote"
    /\ last.req.title = EscapingTitle
    /\ last.result = "none"
    /\ Append(resolveMemoryDir(WorkspaceDir, BRIDGETHREAD_DIR),
              timestampSlug(now) \o <<"-", ".", ".", "-", ".", ".", "-", "x">> \o Md)
          \in DOMAIN files

====
